---- MODULE Spec2Model ----
(***************************************************************************)
(* Blueprint Maker India: the scene and interaction core.                  *)
(*                                                                         *)
(* Part 1 models CanvasDrawing (src/js/components/CanvasDrawing.js)        *)
(* together with the AppState fields it reads and writes (src/js/app.js):  *)
(* the pointer-event state machine, the committed scene AppState.drawings  *)
(* and the snapshot history behind undo()/redo().                          *)
(*                                                                         *)
(* Part 2 models Layer and LayerManager (src/unnamed/part_001): the layer  *)
(* map, the stacking order, the active layer, shape membership and the     *)
(* export/import of the layer metadata.                                    *)
(*                                                                         *)
(* Part 3 models the view of CanvasDrawing (AppState.zoom and the canvas   *)
(* size), Grid (src/js/components/Grid.js) and the shape classes with      *)
(* their JSON factory (src/unnamed/part_000).                              *)
(*                                                                         *)
(* Part 4 runs the handlers of CanvasDrawing on a store of objects, where  *)
(* sharing between the scene, the history and the provisional shape would  *)
(* show.  Part 5 models the ids generateId() gives the shapes of part_000, *)
(* Part 6 the EventBus of src/js/app.js.                                   *)
(***************************************************************************)
EXTENDS Integers, Sequences, FiniteSets, TLC

(***************************************************************************)
(* Bounds of the model.                                                    *)
(***************************************************************************)
\* A stroke is committed only while the scene holds fewer shapes than this
\* (specifications Spec and SpecObs).
MaxDrawings == 2

\* The same cap for the specification SpecStroke, which draws its strokes
\* from every tool and end point.
MaxStrokeDrawings == 1

\* this.maxHistorySize (CanvasDrawing.js:27).  The constructor sets the field
\* to 50; the model scales the capacity down so that the eviction branch of
\* saveState() is reached within the state space explored.
maxHistorySize == 3

\* createLayer is offered only while nextLayerId is below this, so the ids
\* handed out are layer_1 .. layer_(MaxNextLayerId - 1).
MaxNextLayerId == 3

\* The zoom buttons and the wheel are followed while the numerator and the
\* denominator of the zoom factor they set stay within MaxZoomTerm.
MaxZoomTerm == 12

\* move() is followed while the anchor of the shape stays within
\* 0..MaxShapeCoord.
MaxShapeCoord == 100

\* Points handed to Grid and to snapToGridCoord have coordinates in
\* -MaxCoord..MaxCoord: past half a cell of the default grid of 20.
MaxCoord == 11

(***************************************************************************)
(* Program constants.                                                      *)
(***************************************************************************)
gridSize == 20
snapToGrid == TRUE

\* this.currentPreview = null
Null == [null |-> TRUE]

\* Values AppState.currentTool takes: the five tools of App.setTool's
\* callers, and "wall" for a tool id CanvasDrawing has no variant for
\* (setTool stores whatever id it is given).
Tools == {"select", "rectangle", "circle", "line", "text", "wall"}

\* Pointer positions delivered by the events, in canvas coordinates
\* ((clientX - rect.left) / AppState.zoom), before snapping.
DownPoints == {<<3, 3>>}
MovePoints == {<<3, 3>>, <<10, 10>>, <<30, 0>>}

\* getStrokeWidth(): parseInt of the width input; NaN when the input holds
\* no number.  Widths are kept in their JSON text form.
StrokeWidths == {"2", "NaN"}

(***************************************************************************)
(* Environments: the inputs the handlers are offered in a specification.   *)
(*   obs    whether the observers of earlier scenes are kept               *)
(*   tools  ids passed to setTool                                          *)
(*   moves  pointer positions of mousemove                                 *)
(*   widths values of the stroke-width input                               *)
(*   cap    scene length below which a stroke may still be committed       *)
(***************************************************************************)
HistoryEnv ==
    [obs |-> FALSE, tools |-> {"select", "rectangle", "line"},
     moves |-> {<<3, 3>>, <<10, 10>>}, widths |-> {"2"}, cap |-> MaxDrawings]

ObsEnv == [HistoryEnv EXCEPT !.obs = TRUE, !.widths = StrokeWidths]

StrokeEnv ==
    [obs |-> FALSE, tools |-> Tools, moves |-> MovePoints,
     widths |-> {"2"}, cap |-> MaxStrokeDrawings]

\* The toolbar's 'wall' tool (Toolbar.js:24) next to the 'line' tool, with
\* a pointer that moves to (100,0); the observers are kept.
WallEnv ==
    [obs |-> TRUE, tools |-> {"wall", "line"}, moves |-> {<<100, 0>>},
     widths |-> {"2"}, cap |-> MaxDrawings]

VARIABLES
    currentTool,     \* AppState.currentTool
    drawings,        \* AppState.drawings
    isDrawing,       \* this.isDrawing
    startX, startY,  \* this.startX, this.startY
    currentPreview,  \* this.currentPreview
    history,         \* this.history
    historyIndex,    \* this.historyIndex
    emitted,         \* names of the events the last handler emitted, in order
    lastOp,          \* observer: the handler that ran last, with its outcome
    lastSave,        \* observer: what the last saveState() call did
    before,          \* observer: AppState.drawings when the last handler started
    strokeBase,      \* observer: AppState.drawings at the last stroke's pointer-down
    run,             \* observer: a run of committed strokes followed by undos
    layers,          \* LayerManager.layers: the Layer objects in Map insertion order
    layerOrder,      \* LayerManager.layerOrder
    activeLayerId,   \* LayerManager.activeLayerId
    nextLayerId,     \* LayerManager.nextLayerId
    shapeLayer,      \* shape.layer of every shape object handed to the LayerManager
    call,            \* observer: the last LayerManager call, its arguments and result
    exported,        \* the object the last exportLayers() call returned, kept by the caller
    zoom,            \* AppState.zoom, a fraction [n, d]
    canvasWidth,     \* this.canvas.width
    canvasHeight,    \* this.canvas.height
    grid,            \* the Grid object
    gridCall,        \* observer: the last Grid call, its arguments and result
    theShape,        \* a shape object of part_000, Null before one is constructed
    restored,        \* createShapeFromJSON(shape.toJSON()), Null before it is called
    heap,            \* the object store of Part 4: CanvasDrawing by address
    shapeIds,        \* Part 5: Date.now() and the ids generateId() has returned
    bus              \* Part 6: the EventBus, for one event name

canvasVars == <<currentTool, drawings, isDrawing, startX, startY,
                currentPreview, history, historyIndex, emitted, lastOp,
                lastSave, before, strokeBase, run>>

layerVars == <<layers, layerOrder, activeLayerId, nextLayerId, shapeLayer, call>>

viewVars == <<zoom, canvasWidth, canvasHeight>>

gridVars == <<grid, gridCall>>

shapeVars == <<theShape, restored>>

\* Everything a Grid method leaves alone.
notGrid == <<canvasVars, layerVars, exported, viewVars, shapeVars, heap, shapeIds, bus>>

\* Everything but the scene and the pointer machine of CanvasDrawing.
notCanvas == <<layerVars, exported, viewVars, gridVars, shapeVars, heap, shapeIds, bus>>

\* Everything a LayerManager method leaves alone.
notLayers == <<canvasVars, exported, viewVars, gridVars, shapeVars, heap, shapeIds, bus>>

vars == <<canvasVars, layerVars, exported, viewVars, gridVars, shapeVars, heap, shapeIds, bus>>

(***************************************************************************)
(* Pure helpers of CanvasDrawing.                                          *)
(***************************************************************************)
Abs(n) == IF n < 0 THEN -n ELSE n

\* Math.round(coord / gridSize) * gridSize.  Math.round rounds halves up,
\* i.e. floor(coord / gridSize + 1/2).
snapToGridCoord(coord) == ((2 * coord + gridSize) \div (2 * gridSize)) * gridSize

\* JSON.parse(JSON.stringify(v)) of a number: NaN is written as null.
JSONNumber(w) == IF w = "NaN" THEN "null" ELSE w

\* JSON.parse(JSON.stringify(drawing)) of one shape record.
JSONCloneShape(d) == [d EXCEPT !.width = JSONNumber(d.width)]

\* JSON.parse(JSON.stringify(AppState.drawings)): a fresh deep copy.
JSONClone(ds) == [i \in 1..Len(ds) |-> JSONCloneShape(ds[i])]

\* getCurrentToolProperties(), with the prompt and the fill checkbox at
\* their defaults.
getCurrentToolProperties(tool) ==
    CASE tool = "text" -> [text |-> "Text", fontSize |-> 16, fontFamily |-> "Inter"]
      [] tool \in {"rectangle", "circle"} -> [filled |-> FALSE]
      [] OTHER -> [none |-> TRUE]

\* Variant of NewPreview: handleMouseDown stores no provisional shape.
NewPreview_none(tool, x, y, w) == Null

\* The provisional shape built by handleMouseDown.
NewPreview(tool, x, y, w) ==
    [tool |-> tool, startX |-> x, startY |-> y, endX |-> x, endY |-> y,
     color |-> "#2563eb", width |-> w, fill |-> "transparent",
     properties |-> getCurrentToolProperties(tool)]

\* Variant of isValidDrawing: the rectangle test joins its two comparisons
\* with || instead of &&.
isValidDrawing_eitherSide(drawing) ==
    LET dx == drawing.endX - drawing.startX
        dy == drawing.endY - drawing.startY
    IN CASE drawing.tool = "rectangle" -> Abs(dx) > 5 \/ Abs(dy) > 5
         [] drawing.tool = "circle" -> dx * dx + dy * dy > 25
         [] drawing.tool = "line" -> dx * dx + dy * dy > 25
         [] drawing.tool = "text" -> TRUE
         [] OTHER -> FALSE

\* isValidDrawing(drawing).  Math.sqrt(dx^2 + dy^2) > 5 is dx^2 + dy^2 > 25
\* on integer coordinates.
isValidDrawing(drawing) ==
    LET dx == drawing.endX - drawing.startX
        dy == drawing.endY - drawing.startY
    IN CASE drawing.tool = "rectangle" -> Abs(dx) > 5 /\ Abs(dy) > 5
         [] drawing.tool = "circle" -> dx * dx + dy * dy > 25
         [] drawing.tool = "line" -> dx * dx + dy * dy > 25
         [] drawing.tool = "text" -> TRUE
         [] OTHER -> FALSE

canUndo(hi) == hi > 0

canRedo(h, hi) == hi < Len(h) - 1

\* Variant of saveState: the eviction drops the oldest snapshot but leaves
\* the cursor where the push put it.
saveState_cursorNotMoved(h, hi, ds) ==
    LET h1 == IF hi < Len(h) - 1 THEN SubSeq(h, 1, hi + 1) ELSE h
        h2 == Append(h1, JSONClone(ds))
        hi2 == hi + 1
    IN IF Len(h2) > maxHistorySize
       THEN [history |-> Tail(h2), historyIndex |-> hi2]
       ELSE [history |-> h2, historyIndex |-> hi2]

\* Variant of saveState: the eviction removes the newest snapshot (pop)
\* instead of the oldest (shift).
saveState_evictsNewest(h, hi, ds) ==
    LET h1 == IF hi < Len(h) - 1 THEN SubSeq(h, 1, hi + 1) ELSE h
        h2 == Append(h1, JSONClone(ds))
        hi2 == hi + 1
    IN IF Len(h2) > maxHistorySize
       THEN [history |-> SubSeq(h2, 1, Len(h2) - 1), historyIndex |-> hi2 - 1]
       ELSE [history |-> h2, historyIndex |-> hi2]

\* Variant of saveState: the future of the cursor is not removed before the
\* push.
saveState_keepsFuture(h, hi, ds) ==
    LET h2 == Append(h, JSONClone(ds))
        hi2 == hi + 1
    IN IF Len(h2) > maxHistorySize
       THEN [history |-> Tail(h2), historyIndex |-> hi2 - 1]
       ELSE [history |-> h2, historyIndex |-> hi2]

\* saveState(): the history and cursor it leaves, given the scene ds.
saveState(h, hi, ds) ==
    LET h1 == IF hi < Len(h) - 1 THEN SubSeq(h, 1, hi + 1) ELSE h
        h2 == Append(h1, JSONClone(ds))
        hi2 == hi + 1
    IN IF Len(h2) > maxHistorySize
       THEN [history |-> Tail(h2), historyIndex |-> hi2 - 1]
       ELSE [history |-> h2, historyIndex |-> hi2]

(***************************************************************************)
(* Observers (not program state).  lastOp and lastSave are kept in every   *)
(* specification.  lastSave describes the saveState() call of the last     *)
(* handler or of the stroke in progress: a pointer-down and clear() set    *)
(* it, moves and pointer-up keep it, every other handler resets it.        *)
(* before, strokeBase and run record earlier scenes and are kept only when *)
(* env.obs is TRUE (specification SpecObs).                                *)
(***************************************************************************)
NoRun == [active |-> FALSE]

NoSave == [op |-> "none"]

\* What saveState() does when called by handler op with history h, cursor hi.
SaveInfo(op, h, hi) ==
    LET kept == IF hi < Len(h) - 1 THEN hi + 1 ELSE Len(h)
    IN [op |-> op, truncated |-> hi < Len(h) - 1,
        evicted |-> kept + 1 > maxHistorySize]

\* The observer's record of a pointer-down: what saveState() did, and the
\* history and cursor the handler found on entry.
DownInfo(h, hi) ==
    [op |-> "mousedown", truncated |-> SaveInfo("mousedown", h, hi).truncated,
     evicted |-> SaveInfo("mousedown", h, hi).evicted,
     history |-> h, historyIndex |-> hi]

Observe(env, op) ==
    /\ lastOp' = op
    /\ before' = IF env.obs THEN drawings ELSE before

(***************************************************************************)
(* Layer and LayerManager (src/unnamed/part_001): values and helpers.      *)
(*                                                                         *)
(* A Layer object is a record; the Map this.layers is the sequence of its  *)
(* values in insertion order (the order Map.values() and Map.forEach()     *)
(* visit them).  Opacity is counted in hundredths, so 1.0 is 100.  An      *)
(* options or data object is a record holding only the properties that    *)
(* are present: a property that is absent reads as undefined.              *)
(***************************************************************************)
\* `layer_${n}`
LayerIds == <<"layer_0", "layer_1", "layer_2", "layer_3", "layer_4", "layer_5">>

LayerId(n) == LayerIds[n + 1]

\* An id no layer ever has.
UnknownLayerId == "layer_x"

\* null as the value of activeLayerId, of a layerId argument and of shape.layer.
NullId == "null"

\* this.layer of a shape no layer has touched (Shape: options.layer || 0).
FreshShapeLayer == "0"

\* options = {}
NoOptions == [none |-> TRUE]

Has(obj, prop) == prop \in DOMAIN obj

\* new Layer(id, name, options)
Layer(id, name, options) ==
    [id |-> id,
     name |-> name,
     visible |-> IF Has(options, "visible") THEN options.visible # FALSE ELSE TRUE,
     locked |-> IF Has(options, "locked") THEN options.locked ELSE FALSE,
     opacity |-> IF Has(options, "opacity") /\ options.opacity # 0
                 THEN options.opacity ELSE 100,
     color |-> IF Has(options, "color") /\ options.color # ""
               THEN options.color ELSE "#000000",
     shapes |-> <<>>,
     index |-> IF Has(options, "index") THEN options.index ELSE 0]

\* Layer.toJSON()
toJSON(layer) ==
    [id |-> layer.id, name |-> layer.name, visible |-> layer.visible,
     locked |-> layer.locked, opacity |-> layer.opacity, color |-> layer.color,
     index |-> layer.index]

\* Array.prototype.includes
Includes(seq, x) == \E i \in 1..Len(seq) : seq[i] = x

\* Array.prototype.indexOf: the first position of x, counted from 0, or -1.
IndexOf(seq, x) ==
    IF Includes(seq, x)
    THEN (CHOOSE i \in 1..Len(seq) :
              seq[i] = x /\ \A j \in 1..(i - 1) : seq[j] # x) - 1
    ELSE -1

\* seq.splice(k, 1) for 0 <= k < seq.length
\* Variant of RemoveAt: nothing is removed.
RemoveAt_nothing(seq, k) == seq

RemoveAt(seq, k) == SubSeq(seq, 1, k) \o SubSeq(seq, k + 2, Len(seq))

\* seq.splice(k, 0, x): a negative k counts from the end, and the start is
\* clamped to 0..seq.length.
InsertAt(seq, k, x) ==
    LET from == IF k < 0 THEN (IF Len(seq) + k < 0 THEN 0 ELSE Len(seq) + k)
                ELSE IF k > Len(seq) THEN Len(seq) ELSE k
    IN SubSeq(seq, 1, from) \o <<x>> \o SubSeq(seq, from + 1, Len(seq))

\* this.layers.has(id)
MapHas(ls, id) == \E i \in 1..Len(ls) : ls[i].id = id

\* The place of the layer this.layers.get(id) returns, 0 for undefined.
MapPos(ls, id) ==
    IF MapHas(ls, id) THEN CHOOSE i \in 1..Len(ls) : ls[i].id = id ELSE 0

\* this.layers.set(layer.id, layer): an existing key keeps its place.
MapSet(ls, layer) ==
    IF MapHas(ls, layer.id)
    THEN [ls EXCEPT ![MapPos(ls, layer.id)] = layer]
    ELSE Append(ls, layer)

\* this.layers.delete(id)
MapDelete(ls, id) == SelectSeq(ls, LAMBDA l : l.id # id)

\* getDefaultLayer(): the place of this.layers.get('layer_0'), 0 for undefined.
getDefaultLayer(ls) == MapPos(ls, "layer_0")

\* Variant of updateLayerIndices: no index is written.
updateLayerIndices_none(ls, order) == ls

\* updateLayerIndices(): every layer named in layerOrder gets the position
\* of its id (the last one, should the id be listed twice).
updateLayerIndices(ls, order) ==
    [i \in 1..Len(ls) |->
        IF Includes(order, ls[i].id)
        THEN [ls[i] EXCEPT !.index =
                 (CHOOSE p \in 1..Len(order) :
                      order[p] = ls[i].id
                      /\ \A q \in (p + 1)..Len(order) : order[q] # ls[i].id) - 1]
        ELSE ls[i]]

\* layer.removeShape(shape) on every layer (removeShapeFromAllLayers): the
\* layers afterwards.
removeShapeFromAllLayers(ls, shape) ==
    [i \in 1..Len(ls) |->
        IF Includes(ls[i].shapes, shape)
        THEN [ls[i] EXCEPT !.shapes = RemoveAt(@, IndexOf(@, shape))]
        ELSE ls[i]]

\* layer.addShape(shape) for every shape of the sequence moved, in order:
\* the shapes of the layer afterwards.
addShapes(shapes, moved) ==
    shapes \o SelectSeq(moved, LAMBDA s : ~Includes(shapes, s))

\* createDefaultLayer(): the manager's fields afterwards.
createDefaultLayer(ls, order) ==
    LET defaultLayer == Layer("layer_0", "Default Layer", [index |-> 0])
    IN [layers |-> MapSet(ls, defaultLayer),
        layerOrder |-> Append(order, defaultLayer.id),
        activeLayerId |-> defaultLayer.id]

\* exportLayers()
exportLayers ==
    [layers |-> [i \in 1..Len(layers) |-> toJSON(layers[i])],
     layerOrder |-> layerOrder,
     activeLayerId |-> activeLayerId,
     nextLayerId |-> nextLayerId]

\* No LayerManager call has been made yet.
NoCall == [op |-> "none"]

\* The shape objects handed to the LayerManager.
LayerShapes == {"s1", "s2"}

\* The layer ids passed as arguments: every id createLayer can hand out,
\* 'layer_0', and an id of no layer.
ArgumentIds == {LayerId(n) : n \in 0..(MaxNextLayerId - 1)} \cup {UnknownLayerId}

(***************************************************************************)
(* Environments of the LayerManager: the arguments its operations are      *)
(* offered in a specification.                                             *)
(*   shapes    shapes passed to addShapeToLayer and moveShapeToLayer       *)
(*   ids       layer ids passed as arguments                               *)
(*   names     names passed to createLayer                                 *)
(*   options   options passed to createLayer                               *)
(*   indexes   positions passed to moveLayer                               *)
(*   opacities opacities passed to setLayerOpacity, in hundredths          *)
(*   imports   arguments of importLayers (see ImportData)                  *)
(***************************************************************************)
LayerEnv ==
    [shapes |-> {"s1"}, ids |-> ArgumentIds, names |-> {"A"},
     options |-> {NoOptions}, indexes |-> {0, 5}, opacities |-> {},
     imports |-> {"export", "empty", "null"}]

DataEnv ==
    [shapes |-> {}, ids |-> ArgumentIds, names |-> {"A"},
     options |-> {NoOptions}, indexes |-> {}, opacities |-> {-10, 0, 50, 130},
     imports |-> {"export"}]

(***************************************************************************)
(* Fractions: AppState.zoom and the scales computed from it are kept as    *)
(* fractions n/d in lowest terms, d > 0, so that the factors 1.2, 0.9 and  *)
(* 1.1 and the limits 0.1 and 5 are exact.                                 *)
(***************************************************************************)
RECURSIVE GCD(_, _)
GCD(a, b) == IF b = 0 THEN a ELSE GCD(b, a % b)

Frac(n, d) == [n |-> n \div GCD(n, d), d |-> d \div GCD(n, d)]

Whole(k) == [n |-> k, d |-> 1]

FracTimes(a, b) == Frac(a.n * b.n, a.d * b.d)

FracDiv(a, b) == Frac(a.n * b.d, a.d * b.n)

FracLess(a, b) == a.n * b.d < b.n * a.d

\* Math.min and Math.max
FracMin(a, b) == IF FracLess(b, a) THEN b ELSE a

FracMax(a, b) == IF FracLess(a, b) THEN b ELSE a

\* Math.round(a / size) for size > 0: the nearest integer, a tie going up.
roundDiv(a, size) == (2 * a + size) \div (2 * size)

\* The coordinate a pointer handler stores for the offset of the event in
\* the canvas: (event.clientX - rect.left) / AppState.zoom, then
\* this.snapToGrid ? this.snapToGridCoord(x) : x, that is
\* Math.round(x / this.gridSize) * this.gridSize.  this.snapToGrid is never
\* switched off; the other branch keeps the coordinate to the pixel.
pointerCoord(offset, z) ==
    IF snapToGrid THEN roundDiv(offset * z.d, gridSize * z.n) * gridSize
    ELSE (offset * z.d) \div z.n

(***************************************************************************)
(* Grid (src/js/components/Grid.js): the object as constructed.  Only the  *)
(* fields the geometry reads are kept; the colours and line widths are     *)
(* left out.                                                               *)
(***************************************************************************)
\* new Grid(canvas, options)
Grid(options) ==
    LET size == IF Has(options, "size") /\ options.size # 0
                THEN options.size ELSE 20
    IN [size |-> size,
        visible |-> IF Has(options, "visible") THEN options.visible # FALSE
                    ELSE TRUE,
        snapEnabled |-> IF Has(options, "snapEnabled")
                        THEN options.snapEnabled # FALSE ELSE TRUE,
        majorGridSize |-> IF Has(options, "majorGridSize")
                             /\ options.majorGridSize # 0
                          THEN options.majorGridSize ELSE size * 5,
        offsetX |-> 0,
        offsetY |-> 0]

(***************************************************************************)
(* Initial state: AppState as declared, CanvasDrawing, LayerManager and    *)
(* Grid as constructed, the canvas sized to an 800 x 600 container by the  *)
(* first resize().                                                         *)
(***************************************************************************)
\* The store of a new CanvasDrawing: AppState.drawings is an empty array
\* (app.js:14), the history is empty and no stroke is open.
NewHeap ==
    [shapes |-> <<>>, arrays |-> << <<>> >>, drawings |-> 1, history |-> <<>>,
     historyIndex |-> -1, currentPreview |-> 0, isDrawing |-> FALSE,
     op |-> "init"]

Init ==
    /\ currentTool = "select"
    /\ drawings = <<>>
    /\ isDrawing = FALSE
    /\ startX = 0
    /\ startY = 0
    /\ currentPreview = Null
    /\ history = <<>>
    /\ historyIndex = -1
    /\ emitted = <<>>
    /\ lastOp = "init"
    /\ lastSave = NoSave
    /\ before = <<>>
    /\ strokeBase = <<>>
    /\ run = NoRun
    /\ layers = createDefaultLayer(<<>>, <<>>).layers
    /\ layerOrder = createDefaultLayer(<<>>, <<>>).layerOrder
    /\ activeLayerId = createDefaultLayer(<<>>, <<>>).activeLayerId
    /\ nextLayerId = 1
    /\ shapeLayer = [s \in LayerShapes |-> FreshShapeLayer]
    /\ call = NoCall
    /\ exported = Null
    /\ zoom = Whole(1)
    /\ canvasWidth = 800
    /\ canvasHeight = 600
    /\ grid = Grid(NoOptions)
    /\ gridCall = NoCall
    /\ theShape = Null
    /\ restored = Null
    /\ heap = NewHeap
    /\ shapeIds = [now |-> 0, ids |-> <<>>, op |-> "init"]
    /\ bus = [events |-> <<>>, callbacks |-> <<>>, emits |-> 0, op |-> "init"]

(***************************************************************************)
(* App.setTool(tool)                                                       *)
(***************************************************************************)
setTool(env) ==
    \E tool \in env.tools :
        /\ currentTool' = tool
        /\ emitted' = <<"tool:changed">>
        /\ Observe(env, "setTool")
        /\ UNCHANGED <<drawings, isDrawing, startX, startY, currentPreview,
                       history, historyIndex, lastSave, strokeBase, run>>

(***************************************************************************)
(* handleMouseDown(event) (also reached from handleTouchStart)             *)
(***************************************************************************)
handleMouseDown(env) ==
    \E p \in DownPoints, w \in env.widths :
        LET sx == pointerCoord(p[1], zoom)
            sy == pointerCoord(p[2], zoom)
            saved == saveState(history, historyIndex, drawings)
        IN /\ p[1] <= canvasWidth
           /\ p[2] <= canvasHeight
           /\ startX' = sx
           /\ startY' = sy
           /\ IF currentTool # "select"
              THEN /\ isDrawing' = TRUE
                   /\ history' = saved.history
                   /\ historyIndex' = saved.historyIndex
                   /\ currentPreview' = NewPreview(currentTool, sx, sy, w)
                   /\ emitted' = <<"canvas:state-saved", "canvas:mousedown">>
                   /\ lastSave' = IF env.obs
                                  THEN DownInfo(history, historyIndex)
                                  ELSE SaveInfo("mousedown", history,
                                                historyIndex)
                   /\ strokeBase' = IF env.obs THEN drawings ELSE strokeBase
                   /\ run' = IF ~env.obs THEN run
                             ELSE IF run.active /\ run.u = 0 /\ ~isDrawing
                             THEN run
                             ELSE [active |-> TRUE, base |-> drawings,
                                   n |-> 0, u |-> 0]
              ELSE /\ emitted' = <<"canvas:mousedown">>
                   /\ lastSave' = NoSave
                   /\ UNCHANGED <<isDrawing, history, historyIndex,
                                  currentPreview, strokeBase, run>>
           /\ Observe(env, "mousedown")
           /\ UNCHANGED <<currentTool, drawings>>

(***************************************************************************)
(* handleMouseMove(event) (also reached from handleTouchMove)              *)
(***************************************************************************)
handleMouseMove(env) ==
    \E p \in env.moves :
        /\ p[1] <= canvasWidth
        /\ p[2] <= canvasHeight
        /\ IF isDrawing /\ currentPreview # Null
           THEN currentPreview' = [currentPreview EXCEPT
                                      !.endX = pointerCoord(p[1], zoom),
                                      !.endY = pointerCoord(p[2], zoom)]
           ELSE UNCHANGED currentPreview
        /\ emitted' = <<"canvas:mousemove">>
        /\ Observe(env, "mousemove")
        /\ UNCHANGED <<currentTool, drawings, isDrawing, startX, startY,
                       history, historyIndex, lastSave, strokeBase, run>>

(***************************************************************************)
(* handleMouseUp(event) (also reached from handleTouchEnd)                 *)
(***************************************************************************)
handleMouseUp(env) ==
    /\ IF isDrawing /\ currentPreview # Null
       THEN /\ IF isValidDrawing(currentPreview)
               THEN /\ Len(drawings) < env.cap
                    /\ drawings' = Append(drawings, currentPreview)
                    /\ emitted' = <<"drawing:added", "canvas:mouseup">>
                    /\ Observe(env, "mouseup:commit")
                    /\ run' = IF ~env.obs THEN run
                              ELSE IF run.active /\ run.u = 0
                              THEN [run EXCEPT !.n = @ + 1]
                              ELSE NoRun
               ELSE /\ UNCHANGED drawings
                    /\ emitted' = <<"canvas:mouseup">>
                    /\ Observe(env, "mouseup:discard")
                    /\ run' = IF env.obs THEN NoRun ELSE run
            /\ currentPreview' = Null
       ELSE /\ UNCHANGED <<drawings, currentPreview>>
            /\ emitted' = <<"canvas:mouseup">>
            /\ Observe(env, "mouseup:idle")
            /\ run' = IF env.obs THEN NoRun ELSE run
    /\ isDrawing' = FALSE
    /\ UNCHANGED <<currentTool, startX, startY, history, historyIndex,
                   lastSave, strokeBase>>

\* Variant of handleMouseLeave: the stroke in progress is left as it is.
handleMouseLeave_keepsStroke(env) ==
    /\ Observe(env, IF isDrawing THEN "mouseleave:cancel" ELSE "mouseleave:idle")
    /\ lastSave' = IF isDrawing THEN NoSave ELSE lastSave
    /\ emitted' = <<>>
    /\ UNCHANGED <<currentTool, drawings, isDrawing, startX, startY,
                   currentPreview, history, historyIndex, strokeBase, run>>

(***************************************************************************)
(* handleMouseLeave(event)                                                 *)
(***************************************************************************)
handleMouseLeave(env) ==
    /\ IF isDrawing
       THEN /\ currentPreview' = Null
            /\ isDrawing' = FALSE
            /\ Observe(env, "mouseleave:cancel")
            /\ lastSave' = NoSave
            /\ run' = IF env.obs THEN NoRun ELSE run
       ELSE /\ UNCHANGED <<currentPreview, isDrawing, lastSave, run>>
            /\ Observe(env, "mouseleave:idle")
    /\ emitted' = <<>>
    /\ UNCHANGED <<currentTool, drawings, startX, startY, history,
                   historyIndex, strokeBase>>

\* Variant of undo: the guard tests for a non-empty history and the cursor
\* is clamped at 0, so the first snapshot is reloaded at the head.
undo_reloadsAtHead(env) ==
    /\ IF historyIndex >= 0
       THEN /\ historyIndex' = IF historyIndex > 0 THEN historyIndex - 1 ELSE 0
            /\ drawings' = JSONClone(history[historyIndex' + 1])
            /\ emitted' = <<"canvas:undone">>
       ELSE /\ UNCHANGED <<historyIndex, drawings>>
            /\ emitted' = <<>>
    /\ run' = IF env.obs THEN NoRun ELSE run
    /\ Observe(env, "undo")
    /\ lastSave' = NoSave
    /\ UNCHANGED <<currentTool, isDrawing, startX, startY, currentPreview,
                   history, strokeBase>>

(***************************************************************************)
(* undo()                                                                  *)
(***************************************************************************)
undo(env) ==
    /\ IF canUndo(historyIndex)
       THEN /\ historyIndex' = historyIndex - 1
            /\ drawings' = JSONClone(history[(historyIndex - 1) + 1])
            /\ emitted' = <<"canvas:undone">>
       ELSE /\ UNCHANGED <<historyIndex, drawings>>
            /\ emitted' = <<>>
    /\ run' = IF ~env.obs THEN run
              ELSE IF run.active /\ ~isDrawing /\ run.n >= 1 /\ run.u < run.n
              THEN [run EXCEPT !.u = @ + 1]
              ELSE NoRun
    /\ Observe(env, "undo")
    /\ lastSave' = NoSave
    /\ UNCHANGED <<currentTool, isDrawing, startX, startY, currentPreview,
                   history, strokeBase>>

(***************************************************************************)
(* redo()                                                                  *)
(***************************************************************************)
redo(env) ==
    /\ IF canRedo(history, historyIndex)
       THEN /\ historyIndex' = historyIndex + 1
            /\ drawings' = JSONClone(history[(historyIndex + 1) + 1])
            /\ emitted' = <<"canvas:redone">>
       ELSE /\ UNCHANGED <<historyIndex, drawings>>
            /\ emitted' = <<>>
    /\ run' = IF env.obs THEN NoRun ELSE run
    /\ Observe(env, "redo")
    /\ lastSave' = NoSave
    /\ UNCHANGED <<currentTool, isDrawing, startX, startY, currentPreview,
                   history, strokeBase>>

(***************************************************************************)
(* clear()                                                                 *)
(***************************************************************************)
clear(env) ==
    LET saved == saveState(history, historyIndex, <<>>)
    IN /\ drawings' = <<>>
       /\ history' = saved.history
       /\ historyIndex' = saved.historyIndex
       /\ emitted' = <<"canvas:state-saved", "canvas:cleared">>
       /\ run' = IF env.obs THEN NoRun ELSE run
       /\ Observe(env, "clear")
       /\ lastSave' = SaveInfo("clear", history, historyIndex)
       /\ UNCHANGED <<currentTool, isDrawing, startX, startY, currentPreview,
                      strokeBase>>

\* No handler of CanvasDrawing calls the LayerManager, and nothing under
\* src/ subscribes to the events the handlers emit with a call of it.
Step(env) ==
    \/ setTool(env) /\ UNCHANGED notCanvas
    \/ handleMouseDown(env) /\ UNCHANGED notCanvas
    \/ handleMouseMove(env) /\ UNCHANGED notCanvas
    \/ handleMouseUp(env) /\ UNCHANGED notCanvas
    \/ handleMouseLeave(env) /\ UNCHANGED notCanvas
    \/ undo(env) /\ UNCHANGED notCanvas
    \/ redo(env) /\ UNCHANGED notCanvas
    \/ clear(env) /\ UNCHANGED notCanvas

Next == Step(HistoryEnv)

Spec == Init /\ [][Next]_vars

NextObs == Step(ObsEnv)

SpecObs == Init /\ [][NextObs]_vars

NextStroke ==
    \/ setTool(StrokeEnv) /\ UNCHANGED notCanvas
    \/ handleMouseDown(StrokeEnv) /\ UNCHANGED notCanvas
    \/ handleMouseMove(StrokeEnv) /\ UNCHANGED notCanvas
    \/ handleMouseUp(StrokeEnv) /\ UNCHANGED notCanvas
    \/ handleMouseLeave(StrokeEnv) /\ UNCHANGED notCanvas

SpecStroke == Init /\ [][NextStroke]_vars

NextWall == Step(WallEnv)

SpecWall == Init /\ [][NextWall]_vars

(***************************************************************************)
(* LayerManager operations.  Every call is recorded in the observer call   *)
(* with its arguments and its result: "true", "false", "null" or           *)
(* "undefined" for a return value, "layer" for a returned Layer object,    *)
(* "TypeError" for an exception thrown.                                    *)
(***************************************************************************)
\* Whether some layer holds the shape.
InSomeLayer(ls, shape) == \E i \in 1..Len(ls) : Includes(ls[i].shapes, shape)

\* shape.layer after removeShapeFromAllLayers(shape): Layer.removeShape
\* writes null when it finds the shape.
removedShapeLayer(ls, sl, shape) ==
    IF InSomeLayer(ls, shape) THEN [sl EXCEPT ![shape] = NullId] ELSE sl

\* { ...options, index }
WithIndex(options, index) ==
    [p \in DOMAIN options \cup {"index"} |->
        IF p = "index" THEN index ELSE options[p]]

(***************************************************************************)
(* createLayer(name, options)                                              *)
(***************************************************************************)
createLayer(env) ==
    \E name \in env.names, options \in env.options :
        LET id == LayerId(nextLayerId)
            index == IF Has(options, "index") THEN options.index
                     ELSE Len(layerOrder)
            layer == Layer(id, name, WithIndex(options, index))
            order == IF index >= Len(layerOrder) THEN Append(layerOrder, id)
                     ELSE InsertAt(layerOrder, index, id)
        IN /\ nextLayerId < MaxNextLayerId
           /\ nextLayerId' = nextLayerId + 1
           /\ layerOrder' = order
           /\ layers' = updateLayerIndices(MapSet(layers, layer), order)
           /\ call' = [op |-> "createLayer", id |-> id, ret |-> "layer"]
           /\ UNCHANGED <<activeLayerId, shapeLayer>>

\* Variant of lastRemainingLayer: the comparison is <, which no Map with a
\* layer to delete satisfies.
lastRemainingLayer_never(ls) == Len(ls) < 1

\* this.layers.size <= 1, the test deleteLayer makes before it deletes.
lastRemainingLayer(ls) == Len(ls) <= 1

(***************************************************************************)
(* deleteLayer(layerId)                                                    *)
(*                                                                         *)
(* The shapes of the layer go to the default layer, or to the first other  *)
(* layer of the Map when the default layer is the one deleted.  When the   *)
(* Map holds no 'layer_0', defaultLayer is undefined and the first call of *)
(* defaultLayer.addShape(shape) throws a TypeError before anything has     *)
(* been changed; a layer without shapes never makes that call.  When the   *)
(* default layer is deleted and find() returns no other layer, the shapes  *)
(* are moved nowhere.                                                      *)
(***************************************************************************)
\* Variant of activeAfterDelete: activeLayerId is left as it is.
activeAfterDelete_kept(active, layerId, order) == active

\* if (this.activeLayerId === layerId)
\*     this.activeLayerId = this.layerOrder[0] || null
activeAfterDelete(active, layerId, order) ==
    IF active = layerId
    THEN (IF Len(order) > 0 THEN order[1] ELSE NullId)
    ELSE active

deleteLayer(env) ==
    \E layerId \in env.ids :
        LET pos == MapPos(layers, layerId)
            def == getDefaultLayer(layers)
            other == IF \E i \in 1..Len(layers) : i # pos
                     THEN CHOOSE i \in 1..Len(layers) :
                              i # pos /\ \A j \in 1..(i - 1) : j = pos
                     ELSE 0
            to == IF pos # def THEN def ELSE other
            moved == IF to = 0 THEN <<>> ELSE layers[pos].shapes
            added == SelectSeq(moved, LAMBDA s : ~Includes(layers[to].shapes, s))
            ls1 == IF moved = <<>> THEN layers
                   ELSE [layers EXCEPT ![to].shapes = addShapes(@, moved)]
            order == IF Includes(layerOrder, layerId)
                     THEN RemoveAt(layerOrder, IndexOf(layerOrder, layerId))
                     ELSE layerOrder
        IN IF pos = 0 \/ lastRemainingLayer(layers)
           THEN /\ call' = [op |-> "deleteLayer", id |-> layerId, ret |-> "false"]
                /\ UNCHANGED <<layers, layerOrder, activeLayerId, nextLayerId,
                               shapeLayer>>
           ELSE IF pos # def /\ def = 0 /\ layers[pos].shapes # <<>>
           THEN /\ call' = [op |-> "deleteLayer", id |-> layerId,
                            ret |-> "TypeError"]
                /\ UNCHANGED <<layers, layerOrder, activeLayerId, nextLayerId,
                               shapeLayer>>
           ELSE /\ layers' = updateLayerIndices(MapDelete(ls1, layerId), order)
                /\ layerOrder' = order
                /\ activeLayerId' =
                       activeAfterDelete(activeLayerId, layerId, order)
                /\ shapeLayer' =
                       [s \in DOMAIN shapeLayer |->
                           IF Includes(added, s) THEN layers[to].id
                           ELSE shapeLayer[s]]
                /\ call' = [op |-> "deleteLayer", id |-> layerId, ret |-> "true"]
                /\ UNCHANGED nextLayerId

(***************************************************************************)
(* setActiveLayer(layerId)                                                 *)
(***************************************************************************)
setActiveLayer(env) ==
    \E layerId \in env.ids :
        /\ IF MapHas(layers, layerId)
           THEN /\ activeLayerId' = layerId
                /\ call' = [op |-> "setActiveLayer", id |-> layerId, ret |-> "true"]
           ELSE /\ UNCHANGED activeLayerId
                /\ call' = [op |-> "setActiveLayer", id |-> layerId, ret |-> "false"]
        /\ UNCHANGED <<layers, layerOrder, nextLayerId, shapeLayer>>

(***************************************************************************)
(* moveLayer(layerId, newIndex)                                            *)
(***************************************************************************)
\* Variant of insertIndex without Math.max(0, ...): a negative newIndex
\* reaches splice, which counts it from the end of the array.
insertIndex_noFloor(newIndex, length) ==
    IF newIndex > length THEN length ELSE newIndex

\* Math.max(0, Math.min(newIndex, this.layerOrder.length))
insertIndex(newIndex, length) ==
    IF newIndex < 0 THEN 0
    ELSE IF newIndex > length THEN length
    ELSE newIndex

moveLayer(env) ==
    \E layerId \in env.ids, newIndex \in env.indexes :
        LET currentIndex == IndexOf(layerOrder, layerId)
            removed == RemoveAt(layerOrder, currentIndex)
            order == InsertAt(removed, insertIndex(newIndex, Len(removed)),
                              layerId)
        IN /\ IF currentIndex = -1
              THEN /\ UNCHANGED <<layers, layerOrder>>
                   /\ call' = [op |-> "moveLayer", id |-> layerId,
                               index |-> newIndex, ret |-> "false"]
              ELSE /\ layerOrder' = order
                   /\ layers' = updateLayerIndices(layers, order)
                   /\ call' = [op |-> "moveLayer", id |-> layerId,
                               index |-> newIndex, ret |-> "true"]
           /\ UNCHANGED <<activeLayerId, nextLayerId, shapeLayer>>

\* Variant of addShapeTo: the shape is taken out of its layer before the
\* target is looked at.
addShapeTo_removesFirst(ls, sl, active, shape, layerId) ==
    LET targetLayerId == IF layerId = NullId THEN active ELSE layerId
        pos == MapPos(ls, targetLayerId)
        ls1 == removeShapeFromAllLayers(ls, shape)
    IN IF pos # 0 /\ ~ls[pos].locked
       THEN [layers |-> [ls1 EXCEPT ![pos].shapes = addShapes(@, <<shape>>)],
             shapeLayer |-> [sl EXCEPT ![shape] = targetLayerId],
             ret |-> "true"]
       ELSE [layers |-> ls1, shapeLayer |-> removedShapeLayer(ls, sl, shape),
             ret |-> "false"]

\* addShapeToLayer(shape, layerId = null) on the layers ls and the
\* back-references sl: the layers, the back-references and the value
\* returned.  layerId || this.activeLayerId picks the active layer for null.
addShapeTo(ls, sl, active, shape, layerId) ==
    LET targetLayerId == IF layerId = NullId THEN active ELSE layerId
        pos == MapPos(ls, targetLayerId)
        ls1 == removeShapeFromAllLayers(ls, shape)
    IN IF pos # 0 /\ ~ls[pos].locked
       THEN [layers |-> [ls1 EXCEPT ![pos].shapes = addShapes(@, <<shape>>)],
             shapeLayer |-> [sl EXCEPT ![shape] = targetLayerId],
             ret |-> "true"]
       ELSE [layers |-> ls, shapeLayer |-> sl, ret |-> "false"]

(***************************************************************************)
(* addShapeToLayer(shape, layerId = null)                                  *)
(***************************************************************************)
addShapeToLayer(env) ==
    \E shape \in env.shapes, layerId \in env.ids \cup {NullId} :
        LET r == addShapeTo(layers, shapeLayer, activeLayerId, shape, layerId)
        IN /\ layers' = r.layers
           /\ shapeLayer' = r.shapeLayer
           /\ call' = [op |-> "addShapeToLayer", shape |-> shape,
                       id |-> layerId, ret |-> r.ret]
           /\ UNCHANGED <<layerOrder, activeLayerId, nextLayerId>>

(***************************************************************************)
(* moveShapeToLayer(shape, targetLayerId)                                  *)
(***************************************************************************)
moveShapeToLayer(env) ==
    \E shape \in env.shapes, targetLayerId \in env.ids :
        LET r == addShapeTo(removeShapeFromAllLayers(layers, shape),
                            removedShapeLayer(layers, shapeLayer, shape),
                            activeLayerId, shape, targetLayerId)
        IN /\ layers' = r.layers
           /\ shapeLayer' = r.shapeLayer
           /\ call' = [op |-> "moveShapeToLayer", shape |-> shape,
                       id |-> targetLayerId, ret |-> r.ret]
           /\ UNCHANGED <<layerOrder, activeLayerId, nextLayerId>>

(***************************************************************************)
(* toggleLayerVisibility(layerId)                                          *)
(***************************************************************************)
toggleLayerVisibility(env) ==
    \E layerId \in env.ids :
        LET pos == MapPos(layers, layerId)
        IN /\ IF pos # 0
              THEN /\ layers' = [layers EXCEPT ![pos].visible = ~@]
                   /\ call' = [op |-> "toggleLayerVisibility", id |-> layerId,
                               ret |-> IF layers[pos].visible THEN "false"
                                       ELSE "true"]
              ELSE /\ UNCHANGED layers
                   /\ call' = [op |-> "toggleLayerVisibility", id |-> layerId,
                               ret |-> "null"]
           /\ UNCHANGED <<layerOrder, activeLayerId, nextLayerId, shapeLayer>>

(***************************************************************************)
(* getVisibleShapes(): the loop from i down to 0 (here i counts from 1),   *)
(* and the call, which writes nothing.                                     *)
(***************************************************************************)
RECURSIVE visibleShapesFrom(_, _, _)
visibleShapesFrom(ls, order, i) ==
    IF i < 1 THEN <<>>
    ELSE LET pos == MapPos(ls, order[i])
         IN (IF pos # 0 /\ ls[pos].visible THEN ls[pos].shapes ELSE <<>>)
            \o visibleShapesFrom(ls, order, i - 1)

getVisibleShapes ==
    /\ call' = [op |-> "getVisibleShapes",
                shapes |-> visibleShapesFrom(layers, layerOrder,
                                             Len(layerOrder))]
    /\ UNCHANGED <<layers, layerOrder, activeLayerId, nextLayerId, shapeLayer>>

(***************************************************************************)
(* toggleLayerLock(layerId)                                                *)
(***************************************************************************)
toggleLayerLock(env) ==
    \E layerId \in env.ids :
        LET pos == MapPos(layers, layerId)
        IN /\ IF pos # 0
              THEN /\ layers' = [layers EXCEPT ![pos].locked = ~@]
                   /\ call' = [op |-> "toggleLayerLock", id |-> layerId,
                               ret |-> IF layers[pos].locked THEN "false"
                                       ELSE "true"]
              ELSE /\ UNCHANGED layers
                   /\ call' = [op |-> "toggleLayerLock", id |-> layerId,
                               ret |-> "null"]
           /\ UNCHANGED <<layerOrder, activeLayerId, nextLayerId, shapeLayer>>

(***************************************************************************)
(* setLayerOpacity(layerId, opacity)                                       *)
(***************************************************************************)
setLayerOpacity(env) ==
    \E layerId \in env.ids, opacity \in env.opacities :
        LET pos == MapPos(layers, layerId)
            clamped == IF opacity > 100 THEN 100
                       ELSE IF opacity < 0 THEN 0 ELSE opacity
        IN /\ IF pos # 0
              THEN /\ layers' = [layers EXCEPT ![pos].opacity = clamped]
                   /\ call' = [op |-> "setLayerOpacity", id |-> layerId,
                               ret |-> "true"]
              ELSE /\ UNCHANGED layers
                   /\ call' = [op |-> "setLayerOpacity", id |-> layerId,
                               ret |-> "false"]
           /\ UNCHANGED <<layerOrder, activeLayerId, nextLayerId, shapeLayer>>

\* The argument of importLayers: what exportLayers() returns now, what an
\* earlier exportLayers() call returned, an object with an empty list of
\* layers, the export of a new manager with its list of layers emptied, or
\* null.
ImportData(kind) ==
    CASE kind = "export" -> exportLayers
      [] kind = "saved" -> exported
      [] kind = "empty" -> [layers |-> <<>>]
      [] kind = "noLayers" -> [layers |-> <<>>,
                               layerOrder |-> <<"layer_0">>,
                               activeLayerId |-> "layer_0",
                               nextLayerId |-> 1]
      [] OTHER -> Null

\* data.layers.forEach(layerData => this.layers.set(layer.id, layer))
RECURSIVE importAll(_, _)
importAll(ls, datas) ==
    IF datas = <<>> THEN ls
    ELSE LET layerData == Head(datas)
         IN importAll(MapSet(ls, Layer(layerData.id, layerData.name,
                                       [visible |-> layerData.visible,
                                        locked |-> layerData.locked,
                                        opacity |-> layerData.opacity,
                                        color |-> layerData.color,
                                        index |-> layerData.index])),
                      Tail(datas))

(***************************************************************************)
(* importLayers(data)                                                      *)
(*                                                                         *)
(* The Map and layerOrder are emptied first; reading data.layers of null   *)
(* then throws a TypeError and the call ends there.                        *)
(***************************************************************************)
\* if (data.nextLayerId) this.nextLayerId = data.nextLayerId
\* Variant: the counter of the document is not taken over.
importedNextLayerId_kept(data, next) == next

importedNextLayerId(data, next) ==
    IF Has(data, "nextLayerId") /\ data.nextLayerId # 0
    THEN data.nextLayerId ELSE next

\* const saved = manager.exportLayers(), for a later importLayers(saved)
saveExport ==
    /\ exported' = exportLayers
    /\ call' = [op |-> "exportLayers"]
    /\ UNCHANGED <<layers, layerOrder, activeLayerId, nextLayerId, shapeLayer>>

importLayers(env) ==
    \E kind \in env.imports :
        LET data == ImportData(kind)
            ls1 == IF Has(data, "layers") THEN importAll(<<>>, data.layers)
                   ELSE <<>>
            order1 == IF Has(data, "layerOrder") THEN data.layerOrder ELSE <<>>
            active1 == IF /\ Has(data, "activeLayerId")
                          /\ data.activeLayerId # NullId
                          /\ MapHas(ls1, data.activeLayerId)
                       THEN data.activeLayerId
                       ELSE IF Len(order1) > 0 THEN order1[1]
                       ELSE activeLayerId
            created == createDefaultLayer(ls1, order1)
        IN IF data = Null
           THEN /\ kind # "saved"
                /\ layers' = <<>>
                /\ layerOrder' = <<>>
                /\ call' = [op |-> "importLayers", data |-> kind,
                            ret |-> "TypeError"]
                /\ UNCHANGED <<activeLayerId, nextLayerId, shapeLayer>>
           ELSE /\ layers' = IF Len(ls1) = 0 THEN created.layers ELSE ls1
                /\ layerOrder' = IF Len(ls1) = 0 THEN created.layerOrder
                                 ELSE order1
                /\ activeLayerId' = IF Len(ls1) = 0 THEN created.activeLayerId
                                    ELSE active1
                /\ nextLayerId' = importedNextLayerId(data, nextLayerId)
                /\ call' = [op |-> "importLayers", data |-> kind,
                            ret |-> "undefined"]
                /\ UNCHANGED shapeLayer

(***************************************************************************)
(* The calls that change layerOrder, with a negative, an inner and an      *)
(* out-of-range newIndex.                                                  *)
(***************************************************************************)
OrderEnv ==
    [shapes |-> {}, ids |-> ArgumentIds, names |-> {"A"},
     options |-> {NoOptions}, indexes |-> {-1, 0, 1, 5},
     opacities |-> {}, imports |-> {}]

(***************************************************************************)
(* Documents with zero layers: { layers: [] } and an exported document     *)
(* whose list of layers has been emptied.                                  *)
(***************************************************************************)
ImportEnv ==
    [shapes |-> {}, ids |-> ArgumentIds, names |-> {"A"},
     options |-> {NoOptions}, indexes |-> {0},
     opacities |-> {}, imports |-> {"export", "empty", "noLayers"}]

(***************************************************************************)
(* Two shapes spread over layers that are reordered and hidden, and the    *)
(* zero-layer document that still carries a layerOrder.                    *)
(***************************************************************************)
VisibleEnv ==
    [shapes |-> LayerShapes, ids |-> ArgumentIds, names |-> {"A"},
     options |-> {NoOptions}, indexes |-> {0},
     opacities |-> {}, imports |-> {"noLayers"}]

(***************************************************************************)
(* Layers created and deleted, the manager cleared, and documents exported *)
(* now or earlier imported back; one shape tells an imported layer (its    *)
(* shapes list is new) from the layer that was exported.                   *)
(***************************************************************************)
IdEnv ==
    [shapes |-> {"s1"}, ids |-> ArgumentIds, names |-> {"A"},
     options |-> {NoOptions}, indexes |-> {0},
     opacities |-> {}, imports |-> {"export", "saved"}]

(***************************************************************************)
(* Layers created at a requested index (none, negative, 0, out of range),  *)
(* deleted, moved, made active and cleared.                                *)
(***************************************************************************)
IndexEnv ==
    [shapes |-> {}, ids |-> ArgumentIds, names |-> {"A"},
     options |-> {NoOptions, [index |-> -1], [index |-> 0], [index |-> 5]},
     indexes |-> {-1, 1, 5},
     opacities |-> {}, imports |-> {}]

(***************************************************************************)
(* LayerManager.clear()                                                    *)
(***************************************************************************)
clearLayers(env) ==
    LET created == createDefaultLayer(<<>>, <<>>)
    IN /\ layers' = created.layers
       /\ layerOrder' = created.layerOrder
       /\ activeLayerId' = created.activeLayerId
       /\ nextLayerId' = 1
       /\ shapeLayer' = [s \in DOMAIN shapeLayer |->
                            IF InSomeLayer(layers, s) THEN NullId
                            ELSE shapeLayer[s]]
       /\ call' = [op |-> "clear", ret |-> "undefined"]

(***************************************************************************)
(* Specifications of the LayerManager; the CanvasDrawing stays as          *)
(* constructed.                                                            *)
(***************************************************************************)
NextLayers ==
    \/ createLayer(LayerEnv) /\ UNCHANGED notLayers
    \/ deleteLayer(LayerEnv) /\ UNCHANGED notLayers
    \/ setActiveLayer(LayerEnv) /\ UNCHANGED notLayers
    \/ moveLayer(LayerEnv) /\ UNCHANGED notLayers
    \/ addShapeToLayer(LayerEnv) /\ UNCHANGED notLayers
    \/ moveShapeToLayer(LayerEnv) /\ UNCHANGED notLayers
    \/ toggleLayerLock(LayerEnv) /\ UNCHANGED notLayers
    \/ importLayers(LayerEnv) /\ UNCHANGED notLayers
    \/ clearLayers(LayerEnv) /\ UNCHANGED notLayers

SpecLayers == Init /\ [][NextLayers]_vars

NextLayerData ==
    \/ createLayer(DataEnv) /\ UNCHANGED notLayers
    \/ deleteLayer(DataEnv) /\ UNCHANGED notLayers
    \/ setActiveLayer(DataEnv) /\ UNCHANGED notLayers
    \/ toggleLayerLock(DataEnv) /\ UNCHANGED notLayers
    \/ setLayerOpacity(DataEnv) /\ UNCHANGED notLayers
    \/ importLayers(DataEnv) /\ UNCHANGED notLayers

SpecLayerData == Init /\ [][NextLayerData]_vars

\* Shape membership alone: the layers are created, deleted, locked and
\* activated, and shapes are added and moved.
NextMembership ==
    \/ createLayer(LayerEnv) /\ UNCHANGED notLayers
    \/ deleteLayer(LayerEnv) /\ UNCHANGED notLayers
    \/ setActiveLayer(LayerEnv) /\ UNCHANGED notLayers
    \/ addShapeToLayer(LayerEnv) /\ UNCHANGED notLayers
    \/ moveShapeToLayer(LayerEnv) /\ UNCHANGED notLayers
    \/ toggleLayerLock(LayerEnv) /\ UNCHANGED notLayers

SpecMembership == Init /\ [][NextMembership]_vars

\* Layers created, deleted and moved.
NextOrder ==
    \/ createLayer(OrderEnv) /\ UNCHANGED notLayers
    \/ deleteLayer(OrderEnv) /\ UNCHANGED notLayers
    \/ moveLayer(OrderEnv) /\ UNCHANGED notLayers

SpecOrder == Init /\ [][NextOrder]_vars

\* Documents imported into managers of one to three layers.
NextImport ==
    \/ createLayer(ImportEnv) /\ UNCHANGED notLayers
    \/ deleteLayer(ImportEnv) /\ UNCHANGED notLayers
    \/ moveLayer(ImportEnv) /\ UNCHANGED notLayers
    \/ setActiveLayer(ImportEnv) /\ UNCHANGED notLayers
    \/ importLayers(ImportEnv) /\ UNCHANGED notLayers

SpecImport == Init /\ [][NextImport]_vars

\* The shapes of the visible layers read back in drawing order.
NextVisible ==
    \/ createLayer(VisibleEnv) /\ UNCHANGED notLayers
    \/ moveLayer(VisibleEnv) /\ UNCHANGED notLayers
    \/ toggleLayerVisibility(VisibleEnv) /\ UNCHANGED notLayers
    \/ addShapeToLayer(VisibleEnv) /\ UNCHANGED notLayers
    \/ importLayers(VisibleEnv) /\ UNCHANGED notLayers
    \/ getVisibleShapes /\ UNCHANGED notLayers

SpecVisible == Init /\ [][NextVisible]_vars

\* Layer ids handed out across deletions, clear() and restored documents.
\* exportLayers() is the one step here that writes the caller's copy.
NextIds ==
    \/ createLayer(IdEnv) /\ UNCHANGED notLayers
    \/ deleteLayer(IdEnv) /\ UNCHANGED notLayers
    \/ addShapeToLayer(IdEnv) /\ UNCHANGED notLayers
    \/ clearLayers(IdEnv) /\ UNCHANGED notLayers
    \/ importLayers(IdEnv) /\ UNCHANGED notLayers
    \/ saveExport
          /\ UNCHANGED <<canvasVars, viewVars, gridVars, shapeVars, heap,
                         shapeIds, bus>>

SpecIds == Init /\ [][NextIds]_vars

\* The stacking order and the active layer under every call that writes
\* them.
NextIndex ==
    \/ createLayer(IndexEnv) /\ UNCHANGED notLayers
    \/ deleteLayer(IndexEnv) /\ UNCHANGED notLayers
    \/ moveLayer(IndexEnv) /\ UNCHANGED notLayers
    \/ setActiveLayer(IndexEnv) /\ UNCHANGED notLayers
    \/ clearLayers(IndexEnv) /\ UNCHANGED notLayers

SpecIndex == Init /\ [][NextIndex]_vars

(***************************************************************************)
(* Part 3: Grid.  Coordinates, sizes and offsets are integers.             *)
(***************************************************************************)
\* Arguments of the Grid calls.  The sizes include one that setSize raises
\* to 1, the offsets one that is no multiple of any size but 1.
GridCoords == (-MaxCoord)..MaxCoord

GridPoints ==
    {<<c, c>> : c \in GridCoords} \cup {<<c, 3 - c>> : c \in GridCoords}

GridSizes == {0, 1, 3, 4}

GridOffsets == {<<0, 0>>, <<-1, 2>>, <<5, -3>>}

\* Variant of snapped: Math.floor in place of Math.round.
snapped_floor(adjusted, size, offset) ==
    (adjusted \div size) * size + offset

\* Variant of snapped: the offset is not added back.
snapped_noOffset(adjusted, size, offset) ==
    roundDiv(adjusted, size) * size

\* Math.round(adjusted / this.size) * this.size + this.offset
snapped(adjusted, size, offset) ==
    roundDiv(adjusted, size) * size + offset

\* Grid.snapToGrid(x, y) on the grid g
snapPoint(g, x, y) ==
    IF ~g.snapEnabled THEN [x |-> x, y |-> y]
    ELSE [x |-> snapped(x - g.offsetX, g.size, g.offsetX),
          y |-> snapped(y - g.offsetY, g.size, g.offsetY)]

\* Variant of gridPoint: the offset is added, as gridToScreen does.
gridPoint_adds(g, screenX, screenY) ==
    [x |-> screenX + g.offsetX, y |-> screenY + g.offsetY]

\* Grid.screenToGrid(screenX, screenY) on the grid g
gridPoint(g, screenX, screenY) ==
    [x |-> screenX - g.offsetX, y |-> screenY - g.offsetY]

\* Grid.gridToScreen(gridX, gridY) on the grid g
screenPoint(g, gridX, gridY) ==
    [x |-> gridX + g.offsetX, y |-> gridY + g.offsetY]

setSize ==
    \E size \in GridSizes :
        /\ grid' = [grid EXCEPT !.size = IF size < 1 THEN 1 ELSE size,
                                !.majorGridSize =
                                    (IF size < 1 THEN 1 ELSE size) * 5]
        /\ gridCall' = [op |-> "setSize"]

setSnapEnabled ==
    \E enabled \in BOOLEAN :
        /\ grid' = [grid EXCEPT !.snapEnabled = enabled]
        /\ gridCall' = [op |-> "setSnapEnabled"]

setOffset ==
    \E offset \in GridOffsets :
        /\ grid' = [grid EXCEPT !.offsetX = offset[1], !.offsetY = offset[2]]
        /\ gridCall' = [op |-> "setOffset"]

\* Grid.reset()
reset ==
    /\ grid' = [grid EXCEPT !.offsetX = 0, !.offsetY = 0, !.size = 20,
                            !.majorGridSize = 100, !.visible = TRUE,
                            !.snapEnabled = TRUE]
    /\ gridCall' = [op |-> "reset"]

\* Grid.snapToGrid(x, y)
Grid_snapToGrid ==
    \E p \in GridPoints :
        /\ gridCall' = [op |-> "snapToGrid", x |-> p[1], y |-> p[2],
                        ret |-> snapPoint(grid, p[1], p[2])]
        /\ UNCHANGED grid

screenToGrid ==
    \E p \in GridPoints :
        /\ gridCall' = [op |-> "screenToGrid", x |-> p[1], y |-> p[2],
                        ret |-> gridPoint(grid, p[1], p[2])]
        /\ UNCHANGED grid

gridToScreen ==
    \E p \in GridPoints :
        /\ gridCall' = [op |-> "gridToScreen", x |-> p[1], y |-> p[2],
                        ret |-> screenPoint(grid, p[1], p[2])]
        /\ UNCHANGED grid

\* CanvasDrawing.snapToGridCoord(coord), which reads this.gridSize only
CanvasDrawing_snapToGridCoord ==
    \E coord \in GridCoords :
        /\ gridCall' = [op |-> "snapToGridCoord", x |-> coord,
                        ret |-> snapToGridCoord(coord)]
        /\ UNCHANGED grid

NextGrid ==
    \/ setSize /\ UNCHANGED notGrid
    \/ setSnapEnabled /\ UNCHANGED notGrid
    \/ setOffset /\ UNCHANGED notGrid
    \/ reset /\ UNCHANGED notGrid
    \/ Grid_snapToGrid /\ UNCHANGED notGrid
    \/ screenToGrid /\ UNCHANGED notGrid
    \/ gridToScreen /\ UNCHANGED notGrid
    \/ CanvasDrawing_snapToGridCoord /\ UNCHANGED notGrid

SpecGrid == Init /\ [][NextGrid]_vars

(***************************************************************************)
(* Part 3: the view of CanvasDrawing.  One line is drawn across the canvas *)
(* at the zoom of the moment, the canvas follows its container between an  *)
(* 800 x 600 and an 80 x 60 box, and the zoom controls are used.           *)
(***************************************************************************)
ZoomEnv ==
    [obs |-> FALSE, tools |-> {"line"}, moves |-> {<<700, 500>>},
     widths |-> {"2"}, cap |-> MaxStrokeDrawings]

\* container.getBoundingClientRect() at a resize
CanvasSizes == {<<800, 600>>, <<80, 60>>}

\* The fraction is small enough to be followed.
Followed(z) == z.n <= MaxZoomTerm /\ z.d <= MaxZoomTerm

\* AppState.zoom = newZoom and emit 'canvas:zoomed', if newZoom differs
setZoom(newZoom) ==
    /\ Followed(newZoom)
    /\ zoom' = newZoom
    /\ emitted' = IF newZoom # zoom THEN <<"canvas:zoomed">> ELSE <<>>
    /\ UNCHANGED <<currentTool, drawings, isDrawing, startX, startY,
                   currentPreview, history, historyIndex, lastOp, lastSave,
                   before, strokeBase, run, canvasWidth, canvasHeight>>

zoomIn == setZoom(FracMin(Whole(5), FracTimes(zoom, Frac(12, 10))))

zoomOut == setZoom(FracMax(Frac(1, 10), FracDiv(zoom, Frac(12, 10))))

resetZoom == setZoom(Whole(1))

\* handleWheel(event): deltaY > 0 ? 0.9 : 1.1
handleWheel ==
    \E delta \in {Frac(9, 10), Frac(11, 10)} :
        setZoom(FracMax(Frac(1, 10),
                        FracMin(Whole(5), FracTimes(zoom, delta))))

\* Math.min and Math.max over startX and endX (startY and endY) of all
\* drawings
MinOf(S) == CHOOSE m \in S : \A other \in S : m <= other

MaxOf(S) == CHOOSE m \in S : \A other \in S : m >= other

XsOf(ds) == {ds[i].startX : i \in 1..Len(ds)} \cup {ds[i].endX : i \in 1..Len(ds)}

YsOf(ds) == {ds[i].startY : i \in 1..Len(ds)} \cup {ds[i].endY : i \in 1..Len(ds)}

fitToScreen ==
    IF drawings = <<>>
    THEN /\ emitted' = <<>>
         /\ UNCHANGED <<currentTool, drawings, isDrawing, startX, startY,
                        currentPreview, history, historyIndex, lastOp,
                        lastSave, before, strokeBase, run, viewVars>>
    ELSE LET drawingWidth == MaxOf(XsOf(drawings)) - MinOf(XsOf(drawings))
             drawingHeight == MaxOf(YsOf(drawings)) - MinOf(YsOf(drawings))
         IN IF drawingWidth > 0 /\ drawingHeight > 0
            THEN LET scaleX == Frac(canvasWidth * 8, 10 * drawingWidth)
                     scaleY == Frac(canvasHeight * 8, 10 * drawingHeight)
                     fitted == FracMin(FracMin(scaleX, scaleY), Whole(5))
                 IN /\ zoom' = fitted
                    /\ emitted' = <<"canvas:zoomed">>
                    /\ UNCHANGED <<currentTool, drawings, isDrawing, startX,
                                   startY, currentPreview, history,
                                   historyIndex, lastOp, lastSave, before,
                                   strokeBase, run, canvasWidth, canvasHeight>>
            ELSE /\ emitted' = <<>>
                 /\ UNCHANGED <<currentTool, drawings, isDrawing, startX,
                                startY, currentPreview, history, historyIndex,
                                lastOp, lastSave, before, strokeBase, run,
                                viewVars>>

\* resize(), called on the window's resize event
resize ==
    \E size \in CanvasSizes :
        /\ canvasWidth' = size[1]
        /\ canvasHeight' = size[2]
        /\ emitted' = <<"canvas:resized">>
        /\ UNCHANGED <<currentTool, drawings, isDrawing, startX, startY,
                       currentPreview, history, historyIndex, lastOp,
                       lastSave, before, strokeBase, run, zoom>>

\* Everything the pointer handlers and the zoom controls leave alone.
notView == <<layerVars, exported, gridVars, shapeVars, heap, shapeIds, bus>>

NextZoom ==
    \/ setTool(ZoomEnv) /\ UNCHANGED notCanvas
    \/ handleMouseDown(ZoomEnv) /\ UNCHANGED notCanvas
    \/ handleMouseMove(ZoomEnv) /\ UNCHANGED notCanvas
    \/ handleMouseUp(ZoomEnv) /\ UNCHANGED notCanvas
    \/ zoomIn /\ UNCHANGED notView
    \/ zoomOut /\ UNCHANGED notView
    \/ resetZoom /\ UNCHANGED notView
    \/ handleWheel /\ UNCHANGED notView
    \/ fitToScreen /\ UNCHANGED notView
    \/ resize /\ UNCHANGED notView

SpecZoom == Init /\ [][NextZoom]_vars

(***************************************************************************)
(* Part 3: the shapes (src/unnamed/part_000).  A shape object is a record   *)
(* of its fields plus 'type', the name of its class; layer 0 is written    *)
(* "0" as in shapeLayer.                                                   *)
(***************************************************************************)
\* options.p || default, for a number and for a string
OptNum(options, p, default) ==
    IF Has(options, p) /\ options[p] # 0 THEN options[p] ELSE default

OptStr(options, p, default) ==
    IF Has(options, p) /\ options[p] # "" THEN options[p] ELSE default

\* The object with the fields of extra assigned
With(object, extra) ==
    [p \in DOMAIN object \cup DOMAIN extra |->
        IF p \in DOMAIN extra THEN extra[p] ELSE object[p]]

\* generateId(), one value of it
GeneratedId == "shape_1"

\* Shape.constructor(x, y, options)
Shape(x, y, options) ==
    [id |-> OptStr(options, "id", GeneratedId),
     x |-> x,
     y |-> y,
     selected |-> FALSE,
     visible |-> TRUE,
     strokeStyle |-> OptStr(options, "strokeStyle", "#000000"),
     fillStyle |-> OptStr(options, "fillStyle", "transparent"),
     lineWidth |-> OptNum(options, "lineWidth", 2),
     rotation |-> OptNum(options, "rotation", 0),
     scale |-> OptNum(options, "scale", 1),
     layer |-> OptStr(options, "layer", FreshShapeLayer)]

\* x2 || x1
OrFirst(second, first) == IF second # 0 THEN second ELSE first

Wall(x1, y1, x2, y2, options) ==
    With(Shape(x1, y1, options),
         [type |-> "Wall",
          x2 |-> OrFirst(x2, x1),
          y2 |-> OrFirst(y2, y1),
          thickness |-> OptNum(options, "thickness", 8),
          strokeStyle |-> OptStr(options, "strokeStyle", "#000000"),
          fillStyle |-> OptStr(options, "fillStyle", "#cccccc")])

Door(x, y, options) ==
    With(Shape(x, y, options),
         [type |-> "Door",
          width |-> OptNum(options, "width", 80),
          height |-> OptNum(options, "height", 10),
          openAngle |-> OptNum(options, "openAngle", 90),
          strokeStyle |-> OptStr(options, "strokeStyle", "#8B4513"),
          fillStyle |-> OptStr(options, "fillStyle", "#DEB887")])

Window(x, y, options) ==
    With(Shape(x, y, options),
         [type |-> "Window",
          width |-> OptNum(options, "width", 100),
          height |-> OptNum(options, "height", 10),
          strokeStyle |-> OptStr(options, "strokeStyle", "#4169E1"),
          fillStyle |-> OptStr(options, "fillStyle", "#E6F3FF")])

Room(x, y, width, height, options) ==
    With(Shape(x, y, options),
         [type |-> "Room",
          width |-> OrFirst(width, 200),
          height |-> OrFirst(height, 200),
          name |-> OptStr(options, "name", "Room"),
          strokeStyle |-> OptStr(options, "strokeStyle", "#333333"),
          fillStyle |-> OptStr(options, "fillStyle",
                               "rgba(200, 200, 200, 0.3)")])

TextLabel(x, y, text, options) ==
    With(Shape(x, y, options),
         [type |-> "TextLabel",
          text |-> IF text # "" THEN text ELSE "Text",
          fontSize |-> OptNum(options, "fontSize", 16),
          fontFamily |-> OptStr(options, "fontFamily", "Arial"),
          fillStyle |-> OptStr(options, "fillStyle", "#000000"),
          strokeStyle |-> "transparent"])

MeasurementLine(x1, y1, x2, y2, options) ==
    With(Shape(x1, y1, options),
         [type |-> "MeasurementLine",
          x2 |-> OrFirst(x2, x1),
          y2 |-> OrFirst(y2, y1),
          unit |-> OptStr(options, "unit", "px"),
          strokeStyle |-> OptStr(options, "strokeStyle", "#FF0000"),
          fillStyle |-> OptStr(options, "fillStyle", "#FF0000")])

\* The fields toJSON() of each class writes
ShapeJSONFields ==
    {"type", "id", "x", "y", "strokeStyle", "fillStyle", "lineWidth",
     "rotation", "scale", "layer", "visible"}

OwnJSONFields(type) ==
    CASE type = "Wall" -> {"x2", "y2", "thickness"}
      [] type = "Door" -> {"width", "height", "openAngle"}
      [] type = "Window" -> {"width", "height"}
      [] type = "Room" -> {"width", "height", "name"}
      [] type = "TextLabel" -> {"text", "fontSize", "fontFamily"}
      [] type = "MeasurementLine" -> {"x2", "y2", "unit"}

\* shape.toJSON()
shapeToJSON(object) ==
    [p \in ShapeJSONFields \cup OwnJSONFields(object.type) |-> object[p]]

\* if (data.p) shape.p = data.p, for a number and for a string
SetNum(object, data, p) ==
    IF Has(data, p) /\ data[p] # 0 THEN [object EXCEPT ![p] = data[p]]
    ELSE object

SetStr(object, data, p) ==
    IF Has(data, p) /\ data[p] # "" THEN [object EXCEPT ![p] = data[p]]
    ELSE object

\* if (data.p !== undefined) shape.p = data.p
SetDefined(object, data, p) ==
    IF Has(data, p) THEN [object EXCEPT ![p] = data[p]] ELSE object

\* createShapeFromJSON(data) for a type the factory knows
createShapeFromJSON(data) ==
    LET made ==
          CASE data.type = "Wall" ->
                 SetNum(Wall(data.x, data.y, data.x2, data.y2, NoOptions),
                        data, "thickness")
            [] data.type = "Door" ->
                 SetNum(SetNum(SetNum(Door(data.x, data.y, NoOptions),
                                      data, "width"),
                               data, "height"),
                        data, "openAngle")
            [] data.type = "Window" ->
                 SetNum(SetNum(Window(data.x, data.y, NoOptions),
                               data, "width"),
                        data, "height")
            [] data.type = "Room" ->
                 SetStr(Room(data.x, data.y, data.width, data.height,
                             NoOptions),
                        data, "name")
            [] data.type = "TextLabel" ->
                 SetStr(SetNum(TextLabel(data.x, data.y, data.text, NoOptions),
                               data, "fontSize"),
                        data, "fontFamily")
            [] data.type = "MeasurementLine" ->
                 SetStr(MeasurementLine(data.x, data.y, data.x2, data.y2,
                                        NoOptions),
                        data, "unit")
        id == SetStr(made, data, "id")
        stroke == SetStr(id, data, "strokeStyle")
        fill == SetStr(stroke, data, "fillStyle")
        line == SetNum(fill, data, "lineWidth")
        rotated == SetNum(line, data, "rotation")
        scaled == SetNum(rotated, data, "scale")
    IN SetDefined(SetDefined(scaled, data, "layer"), data, "visible")

\* Arguments of the constructors and of move(): coordinates on and off the
\* axes, sizes with 0 (the default is taken), options absent and present.
ShapeCoords == {0, 30}

ShapeSizes == {0, 40}

ShapeTexts == {"", "Hall"}

ShapeOptions ==
    {NoOptions,
     [id |-> "shape_7", strokeStyle |-> "#123456", fillStyle |-> "",
      lineWidth |-> 3, layer |-> "layer_1"]}

ShapeMoves == {<<50, 0>>, <<0, 50>>}

\* Everything the shape calls leave alone.
notShapes == <<canvasVars, layerVars, exported, viewVars, gridVars, heap, shapeIds, bus>>

newWall ==
    \E x1 \in ShapeCoords, y1 \in ShapeCoords, x2 \in ShapeCoords,
       y2 \in ShapeCoords, options \in ShapeOptions :
        /\ theShape' = Wall(x1, y1, x2, y2, options)
        /\ restored' = Null

newDoor ==
    \E x \in ShapeCoords, y \in ShapeCoords, options \in ShapeOptions :
        /\ theShape' = Door(x, y, options)
        /\ restored' = Null

newWindow ==
    \E x \in ShapeCoords, y \in ShapeCoords, options \in ShapeOptions :
        /\ theShape' = Window(x, y, options)
        /\ restored' = Null

newRoom ==
    \E x \in ShapeCoords, y \in ShapeCoords, width \in ShapeSizes,
       height \in ShapeSizes, options \in ShapeOptions :
        /\ theShape' = Room(x, y, width, height, options)
        /\ restored' = Null

newTextLabel ==
    \E x \in ShapeCoords, y \in ShapeCoords, text \in ShapeTexts,
       options \in ShapeOptions :
        /\ theShape' = TextLabel(x, y, text, options)
        /\ restored' = Null

newMeasurementLine ==
    \E x1 \in ShapeCoords, y1 \in ShapeCoords, x2 \in ShapeCoords,
       y2 \in ShapeCoords, options \in ShapeOptions :
        /\ theShape' = MeasurementLine(x1, y1, x2, y2, options)
        /\ restored' = Null

\* shape.move(dx, dy)
move ==
    \E d \in ShapeMoves :
        /\ theShape # Null
        /\ theShape.x + d[1] <= MaxShapeCoord
        /\ theShape.y + d[2] <= MaxShapeCoord
        /\ theShape' = [theShape EXCEPT !.x = @ + d[1], !.y = @ + d[2]]
        /\ restored' = Null

\* restored = createShapeFromJSON(shape.toJSON())
roundTrip ==
    /\ theShape # Null
    /\ restored' = createShapeFromJSON(shapeToJSON(theShape))
    /\ UNCHANGED theShape

NextShapes ==
    \/ newWall /\ UNCHANGED notShapes
    \/ newDoor /\ UNCHANGED notShapes
    \/ newWindow /\ UNCHANGED notShapes
    \/ newRoom /\ UNCHANGED notShapes
    \/ newTextLabel /\ UNCHANGED notShapes
    \/ newMeasurementLine /\ UNCHANGED notShapes
    \/ move /\ UNCHANGED notShapes
    \/ roundTrip /\ UNCHANGED notShapes

SpecShapes == Init /\ [][NextShapes]_vars

(***************************************************************************)
(* Recognising steps in the properties below.                              *)
(***************************************************************************)
\* The step just taken called saveState(): a pointer-down with a drawing
\* tool, or clear().
SaveStep == lastOp' \in {"mousedown", "clear"} /\ lastSave'.op = lastOp'

MouseUpStep == lastOp' \in {"mouseup:commit", "mouseup:discard", "mouseup:idle"}

MouseLeaveStep == lastOp' \in {"mouseleave:cancel", "mouseleave:idle"}

\* Number of snapshots saveState() keeps before it pushes the new one.
Kept == IF historyIndex < Len(history) - 1 THEN historyIndex + 1 ELSE Len(history)

(***************************************************************************)
(* C1.  In every reachable state, if history is non-empty then             *)
(* 0 <= historyIndex < history.length, and historyIndex is -1 exactly when *)
(* history is empty.                                                       *)
(***************************************************************************)
C1_HistoryIndexInRange ==
    /\ history # <<>> => (0 <= historyIndex /\ historyIndex < Len(history))
    /\ (historyIndex = -1) <=> (history = <<>>)

\* The history is full and an undo has moved the cursor off its tail.
C1_Witness ==
    /\ lastOp = "undo"
    /\ Len(history) = maxHistorySize
    /\ historyIndex = Len(history) - 2

(***************************************************************************)
(* C2.  N committed strokes followed by N calls of undo() leave drawings   *)
(* equal by content to the drawings before the first of those strokes.     *)
(* The observer run counts the strokes (n) and the undos (u) of such a     *)
(* sequence and remembers the scene it started from (base).                *)
(***************************************************************************)
C2_NStrokesNUndos ==
    (run.active /\ run.n >= 1 /\ run.u = run.n) => drawings = run.base

(***************************************************************************)
(* C3.  After a committed stroke, a single undo() returns drawings to the  *)
(* content it had immediately before that stroke's pointer-down.           *)
(***************************************************************************)
C3_UndoReturnsToPreStroke ==
    [][(lastOp = "mouseup:commit" /\ lastOp' = "undo") => drawings' = strokeBase]_vars

(***************************************************************************)
(* C4.  Whenever undo() changes the scene, an immediately following redo() *)
(* restores drawings to the content it had just before that undo().        *)
(***************************************************************************)
C4_RedoRestoresUndone ==
    [][(lastOp = "undo" /\ drawings # before /\ lastOp' = "redo")
          => drawings' = before]_vars

(***************************************************************************)
(* C5.  After clear() drawings is empty, and an immediately following      *)
(* undo() restores drawings to the content it had before clear().          *)
(***************************************************************************)
C5_ClearIsUndoable ==
    [][/\ lastOp' = "clear" => drawings' = <<>>
       /\ (lastOp = "clear" /\ lastOp' = "undo") => drawings' = before]_vars

(***************************************************************************)
(* C6.  history.length never exceeds maxHistorySize.  When a push would    *)
(* exceed it, exactly the oldest snapshot is evicted and historyIndex is   *)
(* decremented by one: the cursor addresses the snapshot just pushed, undo *)
(* is available and redo is not.                                           *)
(***************************************************************************)
C6_CapacityBounded ==
    [][/\ Len(history') <= maxHistorySize
       /\ (SaveStep /\ Kept + 1 > maxHistorySize) =>
            /\ Len(history') = maxHistorySize
            /\ \A i \in 1..(Kept - 1) : history'[i] = history[i + 1]
            /\ historyIndex' = (historyIndex + 1) - 1
            /\ historyIndex' = Len(history') - 1
            /\ history'[historyIndex' + 1] = JSONClone(drawings')
            /\ historyIndex' > 0
            /\ ~(historyIndex' < Len(history') - 1)]_vars

\* A pointer-down has just pushed onto a full history.
C6_Witness ==
    /\ lastOp = "mousedown"
    /\ lastSave.op = "mousedown"
    /\ lastSave.evicted
    /\ Len(history) = maxHistorySize

(***************************************************************************)
(* C7.  A stroke begun after one or more undos discards all snapshots      *)
(* beyond the cursor: its saveState() keeps history[0..historyIndex] and   *)
(* pushes the new snapshot after them; canRedo() is false when the shape   *)
(* is committed and stays false until another undo is performed.           *)
(***************************************************************************)
C7_RedoBranchDiscarded ==
    [][/\ (SaveStep /\ historyIndex < Len(history) - 1) =>
            /\ Len(history') = (historyIndex + 1) + 1
            /\ \A i \in 1..(historyIndex + 1) : history'[i] = history[i]
            /\ history'[Len(history')] = JSONClone(drawings')
       /\ SaveStep => historyIndex' = Len(history') - 1
       /\ (lastOp' = "mouseup:commit" /\ lastSave'.op = "mousedown") =>
            historyIndex' = Len(history') - 1
       /\ (historyIndex = Len(history) - 1 /\ lastOp' # "undo") =>
            historyIndex' = Len(history') - 1]_vars

\* A shape has been committed by a stroke whose pointer-down found redo
\* available.
C7_Witness ==
    /\ lastOp = "mouseup:commit"
    /\ lastSave.op = "mousedown"
    /\ lastSave.truncated
    /\ historyIndex = Len(history) - 1

(***************************************************************************)
(* C8.  undo() with historyIndex 0 (or an empty history) and redo() with   *)
(* historyIndex = history.length - 1 are no-ops: drawings, history and     *)
(* historyIndex are unchanged.                                             *)
(***************************************************************************)
C8_BoundaryNoOps ==
    [][/\ (lastOp' = "undo" /\ historyIndex <= 0) =>
            UNCHANGED <<drawings, history, historyIndex>>
       /\ (lastOp' = "redo" /\ historyIndex = Len(history) - 1) =>
            UNCHANGED <<drawings, history, historyIndex>>]_vars

\* undo() has just returned at the head of a history whose first snapshot
\* differs from the scene.
C8_Witness ==
    /\ lastOp = "undo"
    /\ emitted = <<>>
    /\ historyIndex = 0
    /\ drawings # history[1]

(***************************************************************************)
(* C9.  On pointer-up in the Drawing state the provisional shape is        *)
(* appended to drawings exactly once and 'drawing:added' is emitted iff it *)
(* passes validation (rectangle: |width| > 5 and |height| > 5; circle:     *)
(* radius > 5; line: length > 5; text: always); otherwise drawings is      *)
(* unchanged.  Either way the provisional shape is cleared and the machine *)
(* is Idle.  A 3x3 rectangle is discarded, a 10x10 rectangle is kept.      *)
(***************************************************************************)
\* The validation rule as the claim words it (radius and length are
\* Euclidean: sqrt(w^2 + h^2) > 5 iff w^2 + h^2 > 25).
C9_Passes(d) ==
    LET w == d.endX - d.startX
        h == d.endY - d.startY
    IN \/ d.tool = "rectangle" /\ (w > 5 \/ w < -5) /\ (h > 5 \/ h < -5)
       \/ d.tool = "circle" /\ w * w + h * h > 25
       \/ d.tool = "line" /\ w * w + h * h > 25
       \/ d.tool = "text"

C9_Added == SelectSeq(emitted', LAMBDA e : e = "drawing:added")

C9_Rect(side) == [NewPreview("rectangle", 0, 0, "2") EXCEPT !.endX = side, !.endY = side]

C9_CommitIffValid ==
    /\ ~isValidDrawing(C9_Rect(3))
    /\ isValidDrawing(C9_Rect(10))
    /\ [][(MouseUpStep /\ isDrawing /\ currentPreview # Null) =>
            /\ IF C9_Passes(currentPreview)
               THEN /\ drawings' = Append(drawings, currentPreview)
                    /\ C9_Added = <<"drawing:added">>
               ELSE /\ drawings' = drawings
                    /\ C9_Added = <<>>
            /\ currentPreview' = Null
            /\ isDrawing' = FALSE]_vars

\* A rectangle whose drag passed validation has just been committed.
C9_Witness ==
    /\ lastOp = "mouseup:commit"
    /\ drawings # <<>>
    /\ drawings[Len(drawings)].tool = "rectangle"
    /\ emitted = <<"drawing:added", "canvas:mouseup">>
    /\ ~isDrawing

(***************************************************************************)
(* C10.  A pointer-leave in the Drawing state returns the machine to Idle  *)
(* with the provisional shape cleared and drawings unchanged, whatever the *)
(* size of the provisional shape; a later pointer-up does not commit that  *)
(* stroke (from Idle, only a pointer-down leads back to Drawing, and a     *)
(* pointer-up in Idle leaves drawings alone).                              *)
(***************************************************************************)
C10_LeaveCancels ==
    [][/\ (MouseLeaveStep /\ isDrawing) =>
            /\ isDrawing' = FALSE
            /\ currentPreview' = Null
            /\ drawings' = drawings
       /\ (~isDrawing /\ lastOp' # "mousedown") => ~isDrawing'
       /\ (~isDrawing /\ MouseUpStep) => drawings' = drawings]_vars

\* A pointer-leave has just cancelled a stroke whose pointer-down had saved
\* a snapshot.
C10_Witness ==
    /\ lastOp = "mouseleave:cancel"
    /\ history # <<>>
    /\ ~isDrawing
    /\ currentPreview = Null

(***************************************************************************)
(* C11.  With the 'wall' tool active, grid size 20 and snap enabled, the   *)
(* pointer-up of a stroke from (0,0) to (100,0) appends a shape to         *)
(* drawings whose end point is exactly (100,0); an undo() right after that *)
(* commit returns drawings to the scene before the stroke, and a redo()    *)
(* right after that undo() restores the scene with the wall, field by      *)
(* field.                                                                  *)
(***************************************************************************)
\* The provisional shape is a wall from (0,0) to (100,0).
C11_WallPreview ==
    /\ gridSize = 20
    /\ snapToGrid
    /\ isDrawing
    /\ currentPreview # Null
    /\ currentPreview.tool = "wall"
    /\ <<currentPreview.startX, currentPreview.startY>> = <<0, 0>>
    /\ <<currentPreview.endX, currentPreview.endY>> = <<100, 0>>

\* The last shape of a scene is a wall.
C11_EndsWithWall(ds) == ds # <<>> /\ ds[Len(ds)].tool = "wall"

C11_WallStrokeUndoRedo ==
    [][/\ (MouseUpStep /\ C11_WallPreview) =>
            /\ drawings' = Append(drawings, currentPreview)
            /\ <<drawings'[Len(drawings')].endX,
                 drawings'[Len(drawings')].endY>> = <<100, 0>>
       /\ (lastOp = "mouseup:commit" /\ C11_EndsWithWall(drawings)
              /\ lastOp' = "undo") => drawings' = strokeBase
       /\ (lastOp = "undo" /\ C11_EndsWithWall(before)
              /\ Len(drawings) = Len(before) - 1 /\ lastOp' = "redo")
             => drawings' = before]_vars

(***************************************************************************)
(* Recognising LayerManager calls in the properties below.                 *)
(***************************************************************************)
\* The layers that hold the shape.
OwnersOf(ls, shape) == {i \in 1..Len(ls) : Includes(ls[i].shapes, shape)}

\* The shape is a member of exactly one layer.
InOneLayer(ls, shape) == Cardinality(OwnersOf(ls, shape)) = 1

\* The id of the layer that holds a shape held by exactly one layer.
OwnerId(ls, shape) == ls[CHOOSE i \in OwnersOf(ls, shape) : TRUE].id

\* The layer a call with this layerId argument targets: the active layer
\* when the argument is omitted.
TargetOf(layerId) == IF layerId = NullId THEN activeLayerId ELSE layerId

\* A layer of that id exists and is locked.
IsLocked(id) == MapHas(layers, id) /\ layers[MapPos(layers, id)].locked

(***************************************************************************)
(* C12.  A shape that is a member of exactly one layer is a member of      *)
(* exactly one layer after every addShapeToLayer, moveShapeToLayer and     *)
(* deleteLayer call, whatever the target (locked and unknown ones too).    *)
(***************************************************************************)
C12_ExactlyOneLayer ==
    [][\A shape \in LayerShapes :
          (/\ InOneLayer(layers, shape)
           /\ call'.op \in {"addShapeToLayer", "moveShapeToLayer", "deleteLayer"})
          => InOneLayer(layers', shape)]_vars

(***************************************************************************)
(* C13.  deleteLayer(id) of an existing layer while at least two layers    *)
(* exist returns true and removes the layer, and every shape the layer     *)
(* owned is afterwards owned by exactly one layer: by 'layer_0' when that  *)
(* layer exists and is not the one deleted, by another existing layer      *)
(* otherwise.  This covers the states in which 'layer_0' has been deleted  *)
(* before.                                                                 *)
(***************************************************************************)
C13_DeleteReassignsShapes ==
    [][(/\ call'.op = "deleteLayer"
        /\ MapHas(layers, call'.id)
        /\ Len(layers) >= 2) =>
          /\ call'.ret = "true"
          /\ ~MapHas(layers', call'.id)
          /\ \A shape \in LayerShapes :
                Includes(layers[MapPos(layers, call'.id)].shapes, shape) =>
                    /\ InOneLayer(layers', shape)
                    /\ (call'.id # "layer_0" /\ MapHas(layers, "layer_0"))
                          => OwnerId(layers', shape) = "layer_0"]_vars

(***************************************************************************)
(* C14.  deleteLayer(id) while exactly one layer remains returns false and *)
(* leaves the layer map (every layer's shape set with it), layerOrder,     *)
(* activeLayerId and nextLayerId unchanged.                                *)
(***************************************************************************)
C14_LastLayerKept ==
    [][(call'.op = "deleteLayer" /\ Len(layers) = 1) =>
          /\ call'.ret = "false"
          /\ layers' = layers
          /\ \A i \in 1..Len(layers) : layers'[i].shapes = layers[i].shapes
          /\ layerOrder' = layerOrder
          /\ activeLayerId' = activeLayerId
          /\ nextLayerId' = nextLayerId]_vars

\* deleteLayer has just refused to delete the only layer, which owns a shape.
C14_Witness ==
    /\ call.op = "deleteLayer"
    /\ call.ret = "false"
    /\ Len(layers) = 1
    /\ call.id = layers[1].id
    /\ layers[1].shapes # <<>>

(***************************************************************************)
(* C15.  The LayerManager holds at least one layer in every reachable      *)
(* state.                                                                  *)
(***************************************************************************)
C15_AtLeastOneLayer == Len(layers) >= 1

(***************************************************************************)
(* C16.  addShapeToLayer(shape, layerId) whose target layer (the active    *)
(* layer when layerId is omitted) is locked returns false, changes no      *)
(* layer's shape set and not shape.layer: the shape stays in the layer     *)
(* that owned it.                                                          *)
(***************************************************************************)
C16_LockedTargetRefuses ==
    [][(call'.op = "addShapeToLayer" /\ IsLocked(TargetOf(call'.id))) =>
          /\ call'.ret = "false"
          /\ Len(layers') = Len(layers)
          /\ \A i \in 1..Len(layers) : layers'[i].shapes = layers[i].shapes
          /\ shapeLayer' = shapeLayer
          /\ OwnersOf(layers', call'.shape) = OwnersOf(layers, call'.shape)]_vars

\* addShapeToLayer(shape) without a layerId has just been refused by the
\* locked active layer, for a shape another layer owns.
C16_Witness ==
    /\ call.op = "addShapeToLayer"
    /\ call.id = NullId
    /\ call.ret = "false"
    /\ IsLocked(activeLayerId)
    /\ InOneLayer(layers, call.shape)
    /\ OwnerId(layers, call.shape) # activeLayerId
    /\ shapeLayer[call.shape] = OwnerId(layers, call.shape)

(***************************************************************************)
(* C17.  moveShapeToLayer(shape, targetLayerId) whose target layer is      *)
(* locked or does not exist returns false and leaves the shape a member of *)
(* the layer that owned it before the call.                                *)
(***************************************************************************)
C17_FailedMoveKeepsOwner ==
    [][(/\ call'.op = "moveShapeToLayer"
        /\ (IsLocked(call'.id) \/ ~MapHas(layers, call'.id))
        /\ InOneLayer(layers, call'.shape)) =>
          /\ call'.ret = "false"
          /\ InOneLayer(layers', call'.shape)
          /\ OwnerId(layers', call'.shape) = OwnerId(layers, call'.shape)]_vars

(***************************************************************************)
(* C18.  deleteLayer never raises an exception: in every reachable state   *)
(* and for every layer id it returns a boolean.                            *)
(***************************************************************************)
C18_DeleteReturnsBoolean ==
    call.op = "deleteLayer" => call.ret \in {"true", "false"}

(***************************************************************************)
(* C19.  Every shape in drawings is a member of a layer: in no reachable   *)
(* state, and so in none that follows the commit of a valid stroke, does   *)
(* drawings hold a shape that belongs to no layer.                         *)
(***************************************************************************)
C19_DrawingsHaveLayer ==
    \A i \in 1..Len(drawings) : InSomeLayer(layers, drawings[i])

(***************************************************************************)
(* C20.  importLayers(exportLayers()) reproduces layerOrder, activeLayerId *)
(* and nextLayerId and, layer by layer, id, name, visible, locked, opacity *)
(* and color, for every opacity in [0,1], 0 included.                      *)
(***************************************************************************)
\* The metadata of a layer the claim names.
C20_Metadata(layer) ==
    [id |-> layer.id, name |-> layer.name, visible |-> layer.visible,
     locked |-> layer.locked, opacity |-> layer.opacity, color |-> layer.color]

C20_RoundTrip ==
    [][(call'.op = "importLayers" /\ call'.data = "export") =>
          /\ layerOrder' = layerOrder
          /\ activeLayerId' = activeLayerId
          /\ nextLayerId' = nextLayerId
          /\ Len(layers') = Len(layers)
          /\ \A i \in 1..Len(layers) :
                C20_Metadata(layers'[i]) = C20_Metadata(layers[i])]_vars

(***************************************************************************)
(* C23: an importLayers(data) call that fails (data is null) is not        *)
(* partially applied: layers, layerOrder, activeLayerId and nextLayerId    *)
(* are what they were before the call.                                     *)
(***************************************************************************)
C23_FailedImportNotApplied ==
    [][(call'.op = "importLayers" /\ call'.ret = "TypeError")
       => UNCHANGED <<layers, layerOrder, activeLayerId, nextLayerId>>]_vars

\* The ids of a layerOrder other than id, in their order.
OthersOf(order, id) == SelectSeq(order, LAMBDA other : other # id)

\* clamp(newIndex, 0, length - 1)
ClampIndex(newIndex, length) ==
    IF newIndex < 0 THEN 0
    ELSE IF newIndex > length - 1 THEN length - 1
    ELSE newIndex

(***************************************************************************)
(* C25: moveLayer(id, newIndex) for an id of layerOrder returns true and   *)
(* leaves layerOrder a permutation of its previous content, id at the      *)
(* 0-based position clamp(newIndex, 0, length - 1) and the other ids in    *)
(* their previous relative order; for an unknown id it returns false and   *)
(* changes nothing.                                                        *)
(***************************************************************************)
C25_MoveLayer ==
    [][call'.op = "moveLayer"
       => IF Includes(layerOrder, call'.id)
          THEN /\ call'.ret = "true"
               /\ Len(layerOrder') = Len(layerOrder)
               /\ {layerOrder'[i] : i \in 1..Len(layerOrder')}
                    = {layerOrder[i] : i \in 1..Len(layerOrder)}
               /\ layerOrder'[ClampIndex(call'.index, Len(layerOrder)) + 1]
                    = call'.id
               /\ OthersOf(layerOrder', call'.id)
                    = OthersOf(layerOrder, call'.id)
          ELSE /\ call'.ret = "false"
               /\ UNCHANGED <<layers, layerOrder, activeLayerId, nextLayerId,
                              shapeLayer>>]_vars

\* The first layer of three has been moved with a negative newIndex, and the
\* default layer with one past the end.
C25_Witness ==
    /\ call.op = "moveLayer"
    /\ call.ret = "true"
    /\ Len(layerOrder) = 3
    /\ \/ call.index = -1 /\ call.id = "layer_2" /\ layerOrder[1] = "layer_2"
       \/ call.index = 5 /\ call.id = "layer_0" /\ layerOrder[3] = "layer_0"

(***************************************************************************)
(* C22: importLayers(data) with data holding zero layers leaves the        *)
(* manager with exactly one layer, 'layer_0', which is the active layer    *)
(* and the only entry of layerOrder.                                       *)
(***************************************************************************)
C22_EmptyImportDefault ==
    [][(call'.op = "importLayers" /\ call'.data \in {"empty", "noLayers"})
       => /\ Len(layers') = 1
          /\ layers'[1].id = "layer_0"
          /\ activeLayerId' = "layer_0"
          /\ layerOrder' = <<"layer_0">>]_vars

\* The place of a shape in the drawing order: layers later in layerOrder
\* come first, and within a layer the shapes come in insertion order.
DrawnBefore(a, b) ==
    LET la == CHOOSE i \in OwnersOf(layers, a) : TRUE
        lb == CHOOSE i \in OwnersOf(layers, b) : TRUE
    IN IF la = lb
       THEN IndexOf(layers[la].shapes, a) < IndexOf(layers[la].shapes, b)
       ELSE IndexOf(layerOrder, layers[la].id)
              > IndexOf(layerOrder, layers[lb].id)

(***************************************************************************)
(* C24: getVisibleShapes() returns exactly the shapes of the visible       *)
(* layers, no shape of a hidden layer and no shape twice, the layers taken *)
(* in the reverse of layerOrder and each layer's shapes in insertion       *)
(* order.                                                                  *)
(***************************************************************************)
C24_VisibleShapes ==
    call.op = "getVisibleShapes"
    => LET r == call.shapes
       IN /\ {r[i] : i \in 1..Len(r)}
               = {s \in LayerShapes :
                     \E k \in OwnersOf(layers, s) : layers[k].visible}
          /\ \A i, j \in 1..Len(r) : i < j =>
                /\ r[i] # r[j]
                /\ DrawnBefore(r[i], r[j])

(***************************************************************************)
(* C21: createLayer returns a layer whose id no layer of the manager had   *)
(* when it was called, after any createLayer, deleteLayer and clear calls  *)
(* and after importLayers has restored the layers of an exportLayers()     *)
(* document.                                                               *)
(***************************************************************************)
C21_FreshLayerId ==
    [][call'.op = "createLayer"
       => /\ ~MapHas(layers, call'.id)
          /\ MapHas(layers', call'.id)]_vars

\* createLayer has handed out layer_2 next to layers restored by
\* importLayers: the shape still names the layer it was in, whose restored
\* copy has a new, empty shapes list.
C21_Witness ==
    /\ call.op = "createLayer"
    /\ call.id = "layer_2"
    /\ exported # Null
    /\ MapHas(layers, shapeLayer["s1"])
    /\ OwnersOf(layers, "s1") = {}

(***************************************************************************)
(* C26: snapping is idempotent.  Grid.snapToGrid applied to the point it   *)
(* returned returns that point again, for every grid size >= 1, offset and *)
(* snap setting, and CanvasDrawing.snapToGridCoord applied to the          *)
(* coordinate it returned returns that coordinate again.                   *)
(***************************************************************************)
C26_SnapIdempotent ==
    /\ gridCall.op = "snapToGrid"
       => snapPoint(grid, gridCall.ret.x, gridCall.ret.y) = gridCall.ret
    /\ gridCall.op = "snapToGridCoord"
       => snapToGridCoord(gridCall.ret) = gridCall.ret

\* A point has been moved by snapping on a grid whose offset is no multiple
\* of its size.
C26_Witness ==
    /\ gridCall.op = "snapToGrid"
    /\ grid.snapEnabled
    /\ grid.size = 4
    /\ grid.offsetX = 5
    /\ gridCall.ret.x # gridCall.x
    /\ gridCall.ret.y # gridCall.y

(***************************************************************************)
(* C27: with snapping enabled Grid.snapToGrid(x, y) returns a point whose  *)
(* coordinates, less the offset, are integer multiples of size and lie     *)
(* within size / 2 of x and of y; with snapping disabled it returns (x, y).*)
(***************************************************************************)
C27_SnapNearestMultiple ==
    gridCall.op = "snapToGrid"
    => IF grid.snapEnabled
       THEN /\ (gridCall.ret.x - grid.offsetX) % grid.size = 0
            /\ (gridCall.ret.y - grid.offsetY) % grid.size = 0
            /\ 2 * Abs(gridCall.ret.x - gridCall.x) <= grid.size
            /\ 2 * Abs(gridCall.ret.y - gridCall.y) <= grid.size
       ELSE gridCall.ret = [x |-> gridCall.x, y |-> gridCall.y]

\* A point half a cell from the grid lines on either side has been snapped.
C27_Witness ==
    /\ gridCall.op = "snapToGrid"
    /\ grid.snapEnabled
    /\ grid.size = 4
    /\ grid.offsetX # 0
    /\ 2 * Abs(gridCall.ret.x - gridCall.x) = grid.size

(***************************************************************************)
(* C28: gridToScreen(screenToGrid(p)) = p and screenToGrid(gridToScreen(p))*)
(* = p for every integer point p and integer offset.                       *)
(***************************************************************************)
C28_ScreenGridRoundTrip ==
    /\ gridCall.op = "screenToGrid"
       => screenPoint(grid, gridCall.ret.x, gridCall.ret.y)
            = [x |-> gridCall.x, y |-> gridCall.y]
    /\ gridCall.op = "gridToScreen"
       => gridPoint(grid, gridCall.ret.x, gridCall.ret.y)
            = [x |-> gridCall.x, y |-> gridCall.y]

\* A point has been converted on a panned grid.
C28_Witness ==
    /\ gridCall.op \in {"screenToGrid", "gridToScreen"}
    /\ grid.offsetX # 0
    /\ grid.offsetY # 0
    /\ gridCall.ret.x # gridCall.x
    /\ gridCall.ret.y # gridCall.y

(***************************************************************************)
(* C29: the zoom factor stays within [0.1, 5.0] in every state reachable   *)
(* from zoom = 1 by zoomIn, zoomOut, resetZoom, wheel events and           *)
(* fitToScreen, whatever the committed shapes and the canvas size.         *)
(***************************************************************************)
C29_ZoomWithinLimits ==
    /\ ~FracLess(zoom, Frac(1, 10))
    /\ ~FracLess(Whole(5), zoom)

\* The fields C30 compares: variant, id, anchor, the geometry of the variant
\* and the style fields.
GeometryFields(type) ==
    CASE type = "Wall" -> {"x2", "y2", "thickness"}
      [] type = "Door" -> {"width", "height", "openAngle"}
      [] type = "Window" -> {"width", "height"}
      [] type = "Room" -> {"width", "height"}
      [] type = "TextLabel" -> {"fontSize"}
      [] type = "MeasurementLine" -> {"x2", "y2"}

ComparedFields(type) ==
    {"type", "id", "x", "y", "strokeStyle", "fillStyle", "lineWidth"}
       \cup GeometryFields(type)

(***************************************************************************)
(* C30: for a shape of any variant, constructed and moved,                 *)
(* createShapeFromJSON(shape.toJSON()) is a shape of the same variant with *)
(* the same id, anchor, variant geometry (a second point with a coordinate *)
(* equal to 0 included) and style fields.                                  *)
(***************************************************************************)
C30_ShapeRoundTrip ==
    restored # Null
    => \A p \in ComparedFields(theShape.type) : restored[p] = theShape[p]

(***************************************************************************)
(* C34: after any createLayer (whatever the requested index), deleteLayer  *)
(* and moveLayer calls, the index field of every layer is the position of  *)
(* its id in layerOrder.                                                   *)
(***************************************************************************)
C34_IndexIsPosition ==
    \A i \in 1..Len(layers) :
        /\ Includes(layerOrder, layers[i].id)
        /\ layers[i].index = IndexOf(layerOrder, layers[i].id)

\* A layer has been created in front of two others, which moved up.
C34_Witness ==
    /\ call.op = "createLayer"
    /\ Len(layerOrder) = 3
    /\ layerOrder[1] = call.id
    /\ layers[MapPos(layers, "layer_0")].index > 0

(***************************************************************************)
(* C37: activeLayerId is the id of a layer of the map in every state       *)
(* reached by createLayer, deleteLayer, moveLayer, setActiveLayer (known   *)
(* and unknown ids) and clear, and after the active layer is deleted it is *)
(* the first id of layerOrder.                                             *)
(***************************************************************************)
C37_ActiveLayerExists ==
    [][/\ MapHas(layers', activeLayerId')
       /\ (call'.op = "deleteLayer" /\ call'.ret = "true"
           /\ call'.id = activeLayerId)
          => activeLayerId' = layerOrder'[1]]_vars

\* The active layer, other than layer_0, has been deleted with two layers
\* left, layer_0 not in front.
C37_Witness ==
    /\ call.op = "deleteLayer"
    /\ call.ret = "true"
    /\ call.id # "layer_0"
    /\ Len(layerOrder) = 2
    /\ activeLayerId = layerOrder[1]
    /\ activeLayerId # "layer_0"

(***************************************************************************)
(* C38: layerOrder holds each id of the layer map exactly once and no      *)
(* other id, in every state reached by createLayer (requested index        *)
(* negative, in range or out of range), deleteLayer, moveLayer and clear.  *)
(***************************************************************************)
C38_OrderListsLayersOnce ==
    /\ Len(layerOrder) = Len(layers)
    /\ \A i \in 1..Len(layers) : Includes(layerOrder, layers[i].id)
    /\ \A p, q \in 1..Len(layerOrder) :
          layerOrder[p] = layerOrder[q] => p = q

\* A layer has been created between two others, which only the negative
\* index does.
C38_Witness ==
    /\ call.op = "createLayer"
    /\ Len(layerOrder) = 3
    /\ layerOrder[2] = call.id

(***************************************************************************)
(* C39: while a layer is locked its shape set does not change: no          *)
(* addShapeToLayer, moveShapeToLayer or deleteLayer call adds a shape to   *)
(* it or removes a shape from it.                                          *)
(***************************************************************************)
C39_LockedLayerFrozen ==
    [][call'.op \in {"addShapeToLayer", "moveShapeToLayer", "deleteLayer"}
       => \A i \in 1..Len(layers) :
             (layers[i].locked /\ MapHas(layers', layers[i].id))
             => layers'[MapPos(layers', layers[i].id)].shapes
                  = layers[i].shapes]_vars

(***************************************************************************)
(* C36: after every completed handler, under any interleaving of           *)
(* pointer-down, pointer-move, pointer-up, pointer-leave, undo, redo and   *)
(* clear, isDrawing is true exactly when currentPreview is non-null.       *)
(***************************************************************************)
C36_DrawingIffPreview == isDrawing <=> (currentPreview # Null)

\* An undo() ran in the middle of a stroke, and the stroke is still open.
C36_Witness ==
    /\ lastOp = "undo"
    /\ isDrawing
    /\ currentPreview # Null
    /\ currentPreview.endX # currentPreview.startX

(***************************************************************************)
(* C35: a stroke that ends without a commit (a pointer-leave, or a         *)
(* pointer-up whose shape is discarded) leaves history and historyIndex    *)
(* as they were before its pointer-down.  Checked on the strokes whose     *)
(* pointer-down is directly followed by the event that ends them.          *)
(***************************************************************************)
C35_UncommittedStrokeKeepsHistory ==
    [][(/\ lastSave.op = "mousedown"
        /\ lastOp = "mousedown"
        /\ lastOp' \in {"mouseleave:cancel", "mouseup:discard"})
          => /\ history' = lastSave.history
             /\ historyIndex' = lastSave.historyIndex]_vars

(***************************************************************************)
(* Part 4.  Object identity in CanvasDrawing.  The parts above hold the    *)
(* scene and the history by value.  Here the same handlers run on a store  *)
(* of objects: heap.shapes holds the shape objects and heap.arrays the     *)
(* arrays, each addressed by its position, and AppState.drawings,          *)
(* this.history and this.currentPreview hold addresses (0 is null).  A     *)
(* write through one address is seen through every other copy of it.       *)
(***************************************************************************)
MaxHeapShapes == 6

MaxHeapArrays == 5

HeapTools == {"select", "line"}

HeapMoves == {<<3, 3>>, <<10, 10>>}

\* The shapes an array holds, by content.
contentOf(h, ref) == [i \in 1..Len(h.arrays[ref]) |-> h.shapes[h.arrays[ref][i]]]

\* The content of every snapshot of this.history.
snapshotContents(h) == [i \in 1..Len(h.history) |-> contentOf(h, h.history[i])]

\* Variant of newObject: the object is written over the first object of the
\* store instead of being a new one.
newObject_reused(h, v) ==
    IF h.shapes = <<>>
    THEN [heap |-> [h EXCEPT !.shapes = <<v>>], ref |-> 1]
    ELSE [heap |-> [h EXCEPT !.shapes[1] = v], ref |-> 1]

\* An object literal ({ ... }): a new object with the content v.
newObject(h, v) ==
    [heap |-> [h EXCEPT !.shapes = Append(@, v)], ref |-> Len(h.shapes) + 1]

\* Variant of JSONCopy: the array itself is handed back, not a copy.
JSONCopy_sameArray(h, ref) == [heap |-> h, ref |-> ref]

\* JSON.parse(JSON.stringify(array)): a new array of new objects.
JSONCopy(h, ref) ==
    LET n == Len(h.arrays[ref])
        base == Len(h.shapes)
        copies == [i \in 1..n |-> JSONCloneShape(h.shapes[h.arrays[ref][i]])]
    IN [heap |-> [h EXCEPT !.shapes = @ \o copies,
                            !.arrays = Append(@, [i \in 1..n |-> base + i])],
        ref |-> Len(h.arrays) + 1]

\* The store has room for what a handler allocates.
HasRoom(h, shapes, arrays) ==
    /\ Len(h.shapes) + shapes <= MaxHeapShapes
    /\ Len(h.arrays) + arrays <= MaxHeapArrays

\* saveState() on the store.
heapSaveState(h) ==
    LET h1 == IF h.historyIndex < Len(h.history) - 1
              THEN [h EXCEPT !.history = SubSeq(@, 1, h.historyIndex + 1)]
              ELSE h
        copy == JSONCopy(h1, h1.drawings)
        h2 == [copy.heap EXCEPT !.history = Append(@, copy.ref),
                                !.historyIndex = @ + 1]
    IN IF Len(h2.history) > maxHistorySize
       THEN [h2 EXCEPT !.history = Tail(@), !.historyIndex = @ - 1]
       ELSE h2

heapMouseDown ==
    \E tool \in HeapTools, p \in DownPoints :
        LET sx == pointerCoord(p[1], zoom)
            sy == pointerCoord(p[2], zoom)
            saved == heapSaveState(heap)
            made == newObject(saved, NewPreview(tool, sx, sy, "2"))
        IN IF tool # "select"
           THEN /\ HasRoom(heap, Len(heap.arrays[heap.drawings]) + 1, 1)
                /\ heap' = [made.heap EXCEPT !.isDrawing = TRUE,
                                             !.currentPreview = made.ref,
                                             !.op = "mousedown"]
           ELSE heap' = [heap EXCEPT !.op = "mousedown"]

heapMouseMove ==
    \E p \in HeapMoves :
        heap' = IF heap.isDrawing /\ heap.currentPreview # 0
                THEN [heap EXCEPT
                        !.shapes[heap.currentPreview].endX = pointerCoord(p[1], zoom),
                        !.shapes[heap.currentPreview].endY = pointerCoord(p[2], zoom),
                        !.op = "mousemove"]
                ELSE [heap EXCEPT !.op = "mousemove"]

\* The spread copy of a discarded stroke is never stored, so the model
\* allocates it only on the committing branch.
heapMouseUp ==
    IF heap.isDrawing /\ heap.currentPreview # 0
    THEN IF isValidDrawing(heap.shapes[heap.currentPreview])
         THEN LET made == newObject(heap, heap.shapes[heap.currentPreview])
              IN /\ HasRoom(heap, 1, 0)
                 /\ heap' = [made.heap EXCEPT
                               !.arrays[heap.drawings] = Append(@, made.ref),
                               !.currentPreview = 0,
                               !.isDrawing = FALSE,
                               !.op = "mouseup:commit"]
         ELSE heap' = [heap EXCEPT !.currentPreview = 0, !.isDrawing = FALSE,
                                   !.op = "mouseup:discard"]
    ELSE heap' = [heap EXCEPT !.isDrawing = FALSE, !.op = "mouseup:idle"]

heapMouseLeave ==
    heap' = IF heap.isDrawing
            THEN [heap EXCEPT !.currentPreview = 0, !.isDrawing = FALSE,
                              !.op = "mouseleave"]
            ELSE [heap EXCEPT !.op = "mouseleave"]

\* undo() and redo(): the scene becomes a copy of the snapshot at cursor.
loadSnapshot(h, cursor, op) ==
    LET copy == JSONCopy(h, h.history[cursor + 1])
    IN [copy.heap EXCEPT !.historyIndex = cursor, !.drawings = copy.ref,
                         !.op = op]

heapUndo ==
    IF heap.historyIndex > 0
    THEN /\ HasRoom(heap, Len(heap.arrays[heap.history[heap.historyIndex]]), 1)
         /\ heap' = loadSnapshot(heap, heap.historyIndex - 1, "undo")
    ELSE heap' = [heap EXCEPT !.op = "undo"]

heapRedo ==
    IF heap.historyIndex < Len(heap.history) - 1
    THEN /\ HasRoom(heap, Len(heap.arrays[heap.history[heap.historyIndex + 2]]), 1)
         /\ heap' = loadSnapshot(heap, heap.historyIndex + 1, "redo")
    ELSE heap' = [heap EXCEPT !.op = "redo"]

\* clear(): AppState.drawings = [] is a new array; saveState() follows.
heapClear ==
    LET emptied == [heap EXCEPT !.arrays = Append(@, <<>>),
                                !.drawings = Len(heap.arrays) + 1]
    IN /\ HasRoom(heap, 0, 2)
       /\ heap' = [heapSaveState(emptied) EXCEPT !.op = "clear"]

\* Everything the handlers on the store leave alone.
notHeap == <<canvasVars, layerVars, exported, viewVars, gridVars, shapeVars, shapeIds, bus>>

NextHeap ==
    \/ heapMouseDown /\ UNCHANGED notHeap
    \/ heapMouseMove /\ UNCHANGED notHeap
    \/ heapMouseUp /\ UNCHANGED notHeap
    \/ heapMouseLeave /\ UNCHANGED notHeap
    \/ heapUndo /\ UNCHANGED notHeap
    \/ heapRedo /\ UNCHANGED notHeap
    \/ heapClear /\ UNCHANGED notHeap

SpecHeap == Init /\ [][NextHeap]_vars

(***************************************************************************)
(* C32: while a stroke is in progress a pointer-move changes only the end  *)
(* point of the provisional shape: drawings, history and historyIndex are  *)
(* as before, by address and by content, and the provisional shape is not  *)
(* one of the objects drawings holds.                                      *)
(***************************************************************************)
C32_MoveChangesOnlyPreviewEnd ==
    [][(heap'.op = "mousemove" /\ heap.isDrawing /\ heap.currentPreview # 0)
          => /\ heap'.drawings = heap.drawings
             /\ contentOf(heap', heap'.drawings) = contentOf(heap, heap.drawings)
             /\ heap'.history = heap.history
             /\ snapshotContents(heap') = snapshotContents(heap)
             /\ heap'.historyIndex = heap.historyIndex
             /\ heap'.currentPreview = heap.currentPreview
             /\ \A i \in 1..Len(heap'.arrays[heap'.drawings]) :
                    heap'.arrays[heap'.drawings][i] # heap'.currentPreview
             /\ heap'.shapes[heap'.currentPreview] =
                    [heap.shapes[heap.currentPreview] EXCEPT
                        !.endX = heap'.shapes[heap'.currentPreview].endX,
                        !.endY = heap'.shapes[heap'.currentPreview].endY]]_vars

\* A move has stretched the provisional shape of a second stroke, with the
\* first stroke's shape in drawings and in a snapshot.
C32_Witness ==
    /\ heap.op = "mousemove"
    /\ heap.isDrawing
    /\ heap.currentPreview # 0
    /\ heap.shapes[heap.currentPreview].endX # heap.shapes[heap.currentPreview].startX
    /\ Len(heap.arrays[heap.drawings]) >= 1
    /\ \E i \in 1..Len(heap.history) : Len(heap.arrays[heap.history[i]]) >= 1

(***************************************************************************)
(* C33: the snapshots of history never alias the live scene.  No snapshot  *)
(* is the array AppState.drawings refers to, and a pointer-up that appends *)
(* a shape to drawings, after the saveState() of its pointer-down and      *)
(* after any undo() or redo(), leaves the content of every snapshot as it  *)
(* was.                                                                    *)
(***************************************************************************)
C33_SnapshotsNotAliased ==
    [][/\ \A i \in 1..Len(heap'.history) : heap'.history[i] # heap'.drawings
       /\ heap'.op = "mouseup:commit"
             => snapshotContents(heap') = snapshotContents(heap)]_vars

\* A shape was appended to the scene an undo() had loaded in the middle of
\* the stroke, with a snapshot that holds a shape in the history.
C33_Witness ==
    /\ heap.op = "mouseup:commit"
    /\ Len(heap.arrays[heap.drawings]) >= 1
    /\ heap.historyIndex < Len(heap.history) - 1
    /\ \E i \in 1..Len(heap.history) : Len(heap.arrays[heap.history[i]]) >= 1

(***************************************************************************)
(* Part 5.  The ids of part_000's shapes.  shapeIds.now is the value       *)
(* Date.now() returns and shapeIds.ids holds the ids of the shapes built   *)
(* without an explicit id, in the order they were built.                   *)
(***************************************************************************)
MaxClock == 2

MaxDraw == 1

MaxMade == 3

\* The values Math.floor(Math.random() * 1000) takes here (of 0..999).
Draws == 0..MaxDraw

\* generateId(): 'shape_' + Date.now() + '_' + Math.floor(Math.random() * 1000)
generateId(now, draw) == "shape_" \o ToString(now) \o "_" \o ToString(draw)

\* A millisecond passes.
tick ==
    /\ shapeIds.now < MaxClock
    /\ shapeIds' = [shapeIds EXCEPT !.now = @ + 1, !.op = "tick"]

\* new Shape(x, y) and the constructors of the variants, without options.id.
newShape ==
    \E draw \in Draws :
        /\ Len(shapeIds.ids) < MaxMade
        /\ shapeIds' = [shapeIds EXCEPT
                         !.ids = Append(@, generateId(shapeIds.now, draw)),
                         !.op = "new"]

\* shape.clone(): the constructor draws an id, Object.assign writes the
\* original's id over it, and generateId() is called again for the clone.
clone ==
    \E i \in 1..Len(shapeIds.ids), first \in Draws, second \in Draws :
        LET constructed == generateId(shapeIds.now, first)
            assigned == shapeIds.ids[i]
            cloned == generateId(shapeIds.now, second)
        IN /\ Len(shapeIds.ids) < MaxMade
           /\ shapeIds' = [shapeIds EXCEPT !.ids = Append(@, cloned),
                                        !.op = "clone"]

\* Everything the shape constructors leave alone here.
notMade ==
    <<canvasVars, layerVars, exported, viewVars, gridVars, shapeVars, heap,
      bus>>

NextShapeIds ==
    \/ tick /\ UNCHANGED notMade
    \/ newShape /\ UNCHANGED notMade
    \/ clone /\ UNCHANGED notMade

SpecShapeIds == Init /\ [][NextShapeIds]_vars

(***************************************************************************)
(* C31: two distinct shapes built without an explicit id, by a constructor *)
(* or by clone(), have different ids, whatever the clock and the random    *)
(* draw.                                                                   *)
(***************************************************************************)
C31_GeneratedIdsDiffer ==
    \A i, j \in 1..Len(shapeIds.ids) : shapeIds.ids[i] = shapeIds.ids[j] => i = j

(***************************************************************************)
(* Part 6.  EventBus (app.js:51-88), for one event name.  bus.events is    *)
(* this.events[event], the registered functions in order: a callback       *)
(* itself after on(), the wrapper onceCallback after once().  A callback   *)
(* is known by its number; bus.callbacks[c] tells how it was registered,   *)
(* what it does when called and how often it has been called.  What a      *)
(* callback does is an input: it returns, it throws, or it emits the same  *)
(* event again the first time it is called.                                *)
(***************************************************************************)
MaxCallbacks == 2

MaxEmits == 2

Behaviours == {"returns", "throws", "emits"}

\* this.events[event].filter(cb => cb !== callback)
withoutCallback(events, c, once) ==
    SelectSeq(events, LAMBDA l : ~(l.callback = c /\ l.once = once))

\* on(event, callback), and once(event, callback) which hands on() the
\* wrapper onceCallback.
register(b, does, once) ==
    LET c == Len(b.callbacks) + 1
    IN [b EXCEPT !.events = Append(@, [callback |-> c, once |-> once]),
                 !.callbacks = Append(@, [once |-> once, does |-> does,
                                          called |-> 0])]

\* emit(event, data) from the k-th element of the array forEach() walks.
\* forEach() walks the array it was called on: off() assigns a filtered
\* copy to this.events[event] and leaves that array as it is.  The wrapper
\* calls callback(data) and then off(); when the callback throws, the
\* exception leaves the wrapper before off() and is caught in emit().
RECURSIVE emitFrom(_, _, _)
emitFrom(b, array, k) ==
    IF k > Len(array)
    THEN b
    ELSE LET l == array[k]
             c == l.callback
             does == b.callbacks[c].does
             entered == [b EXCEPT !.callbacks[c].called = @ + 1]
             returned == IF does = "emits" /\ b.callbacks[c].called = 0
                         THEN emitFrom(entered, entered.events, 1)
                         ELSE entered
             left == IF l.once /\ does # "throws"
                     THEN [returned EXCEPT
                             !.events = withoutCallback(@, c, TRUE)]
                     ELSE returned
         IN emitFrom(left, array, k + 1)

on ==
    \E does \in Behaviours :
        /\ Len(bus.callbacks) < MaxCallbacks
        /\ bus' = [register(bus, does, FALSE) EXCEPT !.op = "on"]

once ==
    \E does \in Behaviours :
        /\ Len(bus.callbacks) < MaxCallbacks
        /\ bus' = [register(bus, does, TRUE) EXCEPT !.op = "once"]

\* off(event, callback) with a callback handed to on() or to once(); the
\* wrapper of once() is not the callback, so filter() keeps it.
off ==
    \E c \in 1..Len(bus.callbacks) :
        bus' = [bus EXCEPT !.events = withoutCallback(@, c, FALSE),
                           !.op = "off"]

emit ==
    /\ bus.emits < MaxEmits
    /\ bus' = [emitFrom(bus, bus.events, 1) EXCEPT !.emits = @ + 1,
                                                   !.op = "emit"]

\* Everything the EventBus leaves alone.
notBus ==
    <<canvasVars, layerVars, exported, viewVars, gridVars, shapeVars, heap,
      shapeIds>>

NextBus ==
    \/ on /\ UNCHANGED notBus
    \/ once /\ UNCHANGED notBus
    \/ off /\ UNCHANGED notBus
    \/ emit /\ UNCHANGED notBus

SpecBus == Init /\ [][NextBus]_vars

(***************************************************************************)
(* C40: a callback registered with EventBus.once(event, cb) is called at   *)
(* most once over any sequence of emits of that event, also when cb throws *)
(* and when cb emits the same event again from inside its call.            *)
(***************************************************************************)
C40_OnceCalledAtMostOnce ==
    \A c \in 1..Len(bus.callbacks) :
        bus.callbacks[c].once => bus.callbacks[c].called <= 1

====
